---- MODULE Spec2Model ----
(***************************************************************************)
(* Job application tracker: the applications store (db_utils.py), the AI   *)
(* email classifier (ai_email_classifier.py) and the "Fetch Interview      *)
(* Emails" ingestion handler (app.py).                                     *)
(*                                                                         *)
(* Two Streamlit sessions (Procs) run handlers against the same SQLite     *)
(* file jobs.db, each with a connection per upsert_application call.  The  *)
(* interleaving points are the SQL statements and the COMMIT.              *)
(***************************************************************************)
EXTENDS Integers, Sequences, FiniteSets, TLC

VARIABLES
    applications,     \* committed rows of table applications (a set of rows)
    sqlite_sequence,  \* last id AUTOINCREMENT handed out (committed)
    clock,            \* wall clock: it ticks when a handler starts
    db_lock,          \* session holding SQLite's write lock, 0 when free
    pending,          \* per session: the uncommitted write of its connection
    pc,               \* per session: position in its handler
    caller,           \* per session: the handler that called upsert_application
    record,           \* per session: the record dict passed to upsert_application
    existing,         \* per session: the row id the SELECT fetched, 0 for None
    outcome,          \* per session: how the last upsert_application call ended
    ops,              \* work of the handlers started so far, all sessions
    mailbox,          \* the emails the Gmail search returns
    gemini,           \* TRUE when GeminiEmailClassifier gets a model
    idx,              \* per session: index of the batch loop in the fetched emails
    ai_classification,\* per session: the classification of the current email
    processed_count,  \* per session: processed_count of the batch loop
    ce,               \* one classify_email call followed step by step
    application_notes,\* rows of table application_notes
    stage_transitions,\* rows of table stage_transitions
    kanban_sequence,  \* last ids AUTOINCREMENT handed out in the two tables
    ed,               \* one extract_dates call followed step by step
    sp,               \* one is_job_board_spam call
    xc,               \* one extract_company call followed step by step
    board_data,       \* what the last get_board_data call returned
    last_move         \* how the last move_application_to_stage call ended

storeVars == <<applications, sqlite_sequence, db_lock, pending>>
loopVars == <<idx, ai_classification, processed_count>>
kanbanVars == <<application_notes, stage_transitions, kanban_sequence, last_move>>
utilVars == <<ed, sp, xc, board_data>>
envVars == <<mailbox, gemini, ce, kanbanVars, utilVars>>

vars == <<applications, sqlite_sequence, clock, db_lock, pending, pc, caller,
          record, existing, outcome, ops, mailbox, gemini, idx,
          ai_classification, processed_count, ce, application_notes,
          stage_transitions, kanban_sequence, ed, sp, xc, board_data, last_move>>

(***************************************************************************)
(* Bounds of the model.                                                    *)
(***************************************************************************)
MaxOps == 3
MaxBatch == 2

Procs == {1, 2}

\* SQL NULL / Python None.
NULL == "NULL"

(***************************************************************************)
(* Table applications (init_db).                                           *)
(***************************************************************************)
\* Of the columns upgrade_database_for_kanban adds, the three that
\* move_application_to_stage writes.
KanbanColumns == {"board_stage", "stage_entered_date", "days_in_current_stage"}

\* The columns of init_db and those of the Kanban upgrade.
Columns ==
    {"id", "msg_id", "company", "role", "source", "date_applied", "status",
     "interview_date", "interview_round", "notes", "snippet", "email_subject",
     "email_from", "created_at", "updated_at"} \cup KanbanColumns

\* Columns whose default is CURRENT_TIMESTAMP, given at insert time.
TimestampColumns == {"created_at", "updated_at", "stage_entered_date"}

\* Column defaults of CREATE TABLE and ALTER TABLE ADD COLUMN; id and the
\* timestamps are given at insert time.
ColumnDefault(c) ==
    CASE c = "source" -> "manual"
      [] c = "status" -> "applied"
      [] c = "board_stage" -> "applied"
      [] c = "days_in_current_stage" -> 0
      [] OTHER -> NULL

\* datetime.isoformat(): instants are day numbers, their ISO text is a string.
IsoText == <<"2026-11-03T10:00:00", "2026-11-04T10:00:00", "2026-11-05T10:00:00">>
Dates == 1..Len(IsoText)
isoformat(d) == IsoText[d]

\* Rows holding msg_id m; SQL's "msg_id = ?" never matches a NULL msg_id.
RowsWithMsgId(rows, m) == {r \in rows : r["msg_id"] # NULL /\ r["msg_id"] = m}

\* Mutant of UniqueViolated: NULL msg_ids collide like any other value.
UniqueViolated_NullsCollide(rows, row) ==
    \E r \in rows : r["msg_id"] = row["msg_id"]

\* The UNIQUE constraint on msg_id: NULLs are exempt.
UniqueViolated(rows, row) ==
    row["msg_id"] # NULL /\ RowsWithMsgId(rows, row["msg_id"]) # {}

NoWrite == [kind |-> "none", rows |-> {}, seq |-> 0, id |-> 0]
NoOutcome == [kind |-> "none", id |-> 0]

(***************************************************************************)
(* Email texts.  A text is a string; Words gives the words of its          *)
(* lower-cased form (str.lower()), and a keyword occurs in a text when its *)
(* words occur consecutively in it (Python's "kw in text").                *)
(***************************************************************************)
Words(text) ==
    CASE text = "" -> <<>>
      [] text = "Interview scheduled" -> <<"interview", "scheduled">>
      [] text = "Please join via the Zoom link" ->
            <<"please", "join", "via", "the", "zoom", "link">>
      [] text = "Please join" -> <<"please", "join">>
      [] text = "Job Alert: 1000+ Jobs!" -> <<"job", "alert", ":", "1000+", "jobs", "!">>
      [] text = "Interview tips - unsubscribe" ->
            <<"interview", "tips", "-", "unsubscribe">>
      [] text = "Your application" -> <<"your", "application">>
      [] text = "Unfortunately we are not moving forward" ->
            <<"unfortunately", "we", "are", "not", "moving", "forward">>
      [] text = "Interview" -> <<"interview">>
      [] text = "On Friday we have a phone screen for you" ->
            <<"on", "friday", "we", "have", "a", "phone", "screen", "for", "you">>
      [] text = "Congratulations, we are pleased to make you an offer" ->
            <<"congratulations", ",", "we", "are", "pleased", "to", "make", "you",
              "an", "offer">>
      [] text = "Unfortunately the offer was withdrawn" ->
            <<"unfortunately", "the", "offer", "was", "withdrawn">>
      [] text = "Unfortunately no phone screen" ->
            <<"unfortunately", "no", "phone", "screen">>
      [] text = "An offer follows the phone screen" ->
            <<"an", "offer", "follows", "the", "phone", "screen">>
      [] OTHER -> <<"?">>

\* f"{a} {b}" of two lower-cased texts.
JoinWords(a, b) == a \o b

Contains(ws, kw) ==
    \E i \in 1..(Len(ws) - Len(kw) + 1) : SubSeq(ws, i, i + Len(kw) - 1) = kw

ContainsAny(ws, kws) == \E kw \in kws : Contains(ws, kw)

(***************************************************************************)
(* GeminiEmailClassifier (ai_email_classifier.py).  A classification is an *)
(* EmailClassification; confidence is counted in tenths (8 is 0.8).        *)
(***************************************************************************)
Categories == {"job_interview", "job_application", "promotional", "irrelevant"}
Statuses ==
    {"applied", "interview_scheduled", "interviewed", "rejected", "offer", "accepted"}

EmailClassification(cat, conf, why, comp, rl, sched, sugg) ==
    [category |-> cat, confidence |-> conf, reasoning |-> why, company |-> comp,
     role |-> rl, interview_scheduled |-> sched, status_suggestion |-> sugg]

promotional_indicators ==
    {<<"job", "alert">>, <<"job", "recommendation">>, <<"unsubscribe">>,
     <<"click", "here", "to", "apply">>, <<"thousands", "of", "jobs">>,
     <<"job", "match">>, <<"career", "newsletter">>, <<"job", "digest">>}

interview_indicators ==
    {<<"interview", "scheduled">>, <<"interview", "confirmed">>, <<"please", "join">>,
     <<"zoom", "link">>, <<"meeting", "link">>, <<"interview", "invitation">>}

\* The text the rule-based classifier searches: subject and (body or snippet).
FallbackContent(email) ==
    JoinWords(Words(email.subject),
              IF email.body # "" THEN Words(email.body) ELSE Words(email.snippet))

\* Mutant of fallback_classification: the interview keywords are tried
\* before the promotional ones.
fallback_classification_InterviewFirst(email) ==
    IF ContainsAny(FallbackContent(email), interview_indicators)
    THEN EmailClassification("job_interview", 7,
             "Rule-based: Contains interview scheduling keywords", NULL, NULL, TRUE,
             "interview_scheduled")
    ELSE IF ContainsAny(FallbackContent(email), promotional_indicators)
    THEN EmailClassification("promotional", 8,
             "Rule-based: Contains promotional keywords", NULL, NULL, FALSE, "applied")
    ELSE EmailClassification("job_application", 6,
             "Rule-based: Appears job-related but unclear type", NULL, NULL, FALSE,
             "applied")

\* _fallback_classification: the rule-based cascade.
fallback_classification(email) ==
    IF ContainsAny(FallbackContent(email), promotional_indicators)
    THEN EmailClassification("promotional", 8,
             "Rule-based: Contains promotional keywords", NULL, NULL, FALSE, "applied")
    ELSE IF ContainsAny(FallbackContent(email), interview_indicators)
    THEN EmailClassification("job_interview", 7,
             "Rule-based: Contains interview scheduling keywords", NULL, NULL, TRUE,
             "interview_scheduled")
    ELSE EmailClassification("job_application", 6,
             "Rule-based: Appears job-related but unclear type", NULL, NULL, FALSE,
             "applied")

\* _create_fallback_classification(reason).
create_fallback_classification(reason) ==
    EmailClassification("irrelevant", 3, reason, NULL, NULL, FALSE, "applied")

(***************************************************************************)
(* The model's answer.  kind "raise": generate_content (or reading         *)
(* response.text) raises.  kind "text": the response text, given by its    *)
(* Markdown fence and by what json.loads makes of the text inside:         *)
(* "invalid" (not JSON), "array" (JSON, but no object) or "object" with    *)
(* the fields below.  ABSENT marks a key the object does not have, NULL a  *)
(* JSON null.                                                              *)
(***************************************************************************)
ABSENT == "ABSENT"

\* fence "json": ```json ... ```; "bare": ``` ... ```; "lang": ```javascript
\* ... ```, of which only the backticks are removed; "none": no fence.
Fences == {"none", "json", "bare", "lang"}

\* Lines 159-166: strip the fence, json.loads.
JsonLoads(response) ==
    IF response.fence = "lang" THEN "invalid" ELSE response.json

\* bool(x) of a JSON value: any non-empty string is truthy, null is falsy.
Truthy(v) == v \in {"true", "'false'"}

Get(obj, key, default) == IF obj[key] = ABSENT THEN default ELSE obj[key]

\* Lines 168-176: the EmailClassification built from the parsed object.
ClassificationOfObject(obj) ==
    EmailClassification(
        Get(obj, "category", "irrelevant"),
        IF obj.confidence.type = "absent" THEN 5 ELSE obj.confidence.v,
        Get(obj, "reasoning", "AI classification"),
        Get(obj, "company", NULL),
        Get(obj, "role", NULL),
        Truthy(Get(obj, "interview_scheduled", "false")),
        Get(obj, "status_suggestion", "applied"))

\* A call either returns a value or raises an exception.
NoClassification == EmailClassification("", 0, "", NULL, NULL, FALSE, "")
Return(v) == [exc |-> "none", value |-> v]
Raise(e) == [exc |-> e, value |-> NoClassification]

\* Lines 159-176, the try body of _parse_ai_response: json.loads raises
\* JSONDecodeError, result.get on a list AttributeError, float() ValueError
\* or TypeError.
ParseTryBody(response) ==
    CASE JsonLoads(response) = "invalid" -> Raise("JSONDecodeError")
      [] JsonLoads(response) = "array" -> Raise("AttributeError")
      [] OTHER ->
            IF response.obj.confidence.type = "word" THEN Raise("ValueError")
            ELSE IF response.obj.confidence.type = "null" THEN Raise("TypeError")
            ELSE Return(ClassificationOfObject(response.obj))

\* Mutant of ParseExcept: the parser lets its exception out.
ParseExcept_Reraises(exc) == Raise(exc)

\* Lines 178-184, the except clauses of _parse_ai_response.
ParseExcept(exc) ==
    IF exc = "JSONDecodeError"
    THEN Return(create_fallback_classification("Fallback classification: AI parsing error"))
    ELSE Return(create_fallback_classification("Fallback classification: AI response error"))

parse_ai_response(response) ==
    IF ParseTryBody(response).exc = "none" THEN ParseTryBody(response)
    ELSE ParseExcept(ParseTryBody(response).exc)

\* Line 87: self.model.generate_content(prompt), and reading response.text.
GenerateContent(answer) ==
    IF answer.kind = "raise" THEN Raise("Exception") ELSE Return(NoClassification)

\* Mutant of ClassifyExcept: the exception is logged and raised again.
ClassifyExcept_Reraises(exc, email) == Raise(exc)

\* Lines 92-95, the except clause of classify_email: the rule-based fallback.
ClassifyExcept(exc, email) == Return(fallback_classification(email))

\* Line 75: no model, the rule-based fallback.
ModelMissing(model) == ~model

\* classify_email as a function of the classifier's model (None or not), the
\* model's answer and the email.
classify_email(model, answer, email) ==
    IF ModelMissing(model) THEN Return(fallback_classification(email))
    ELSE IF GenerateContent(answer).exc # "none"
    THEN ClassifyExcept(GenerateContent(answer).exc, email)
    ELSE IF parse_ai_response(answer).exc # "none"
    THEN ClassifyExcept(parse_ai_response(answer).exc, email)
    ELSE parse_ai_response(answer)

(***************************************************************************)
(* parse_interview_email (parser_utils.py).  An email of the mailbox is    *)
(* the dict fetch_interview_emails builds, together with what the          *)
(* extractors return for it: x_company (extract_company), x_role           *)
(* (extract_job_role) and x_dates (the dates extract_dates parses and      *)
(* keeps, in the order it finds them).                                     *)
(***************************************************************************)
Fixtures ==
    {[subject |-> "Interview scheduled", from |-> "Jane Doe <jane@techcorp.io>",
      snippet |-> "Please join", body |-> "Please join via the Zoom link",
      x_company |-> "Techcorp", x_role |-> NULL, x_dates |-> <<2, 3>>],
     [subject |-> "Job Alert: 1000+ Jobs!", from |-> "alerts@naukri.com",
      snippet |-> "Interview tips - unsubscribe", body |-> "",
      x_company |-> "Naukri", x_role |-> NULL, x_dates |-> <<>>]}

\* Gmail message ids, one per position of the mailbox.
MsgIds == <<"m1", "m2", "m3", "m4">>

Mailboxes == UNION {[1..n -> Fixtures] : n \in 0..MaxBatch}

EmailAt(box, i) == box[i] @@ [message_id |-> MsgIds[i]]

\* Mutant of unique_dates: the dates stay in the order they were found.
unique_dates_Unsorted(dates) == dates

\* extract_dates, lines 98-102: list(set(dates)), sorted ascending.  dates
\* are the instants extract_dates parsed and kept, in the order found.
unique_dates(dates) ==
    LET S == {dates[i] : i \in DOMAIN dates}
    IN CHOOSE q \in [1..Cardinality(S) -> S] :
          \A i, j \in 1..Cardinality(S) : i < j => q[i] < q[j]

parse_interview_email(email) ==
    [message_id |-> email.message_id, subject |-> email.subject,
     from |-> email.from, snippet |-> email.snippet, body |-> email.body,
     company |-> email.x_company, role |-> email.x_role,
     interview_dates |-> unique_dates(email.x_dates), source |-> "gmail"]

\* Python truthiness of an optional string.
IsTruthy(x) == x \notin {NULL, ""}

(***************************************************************************)
(* extract_dates (parser_utils.py), followed through its parsing loop.     *)
(* Instants are counted in half days.  A potential date string is given by *)
(* what the two parsers make of it: dateparser.parse returns None, a naive *)
(* datetime or an aware one, or raises; dateutil's parse, tried when the   *)
(* first try block raised, returns a naive or an aware datetime or raises. *)
(* Comparing an aware datetime with the naive reference raises TypeError.  *)
(***************************************************************************)
MaxStrings == 2
MaxTime == 4

Day == 2
Instants == 0..MaxTime

NoParse == [kind |-> "none", at |-> 0]
ParserRaises == [kind |-> "raises", at |-> 0]
Naive(t) == [kind |-> "naive", at |-> t]
Aware(t) == [kind |-> "aware", at |-> t]

\* What the parsers make of one potential date string.  The fallback's
\* answer matters only when the first try block raises.
PotentialDates ==
    {[dateparser |-> r, dateutil |-> ParserRaises] :
        r \in {NoParse} \cup {Naive(t) : t \in Instants}}
    \cup {[dateparser |-> r, dateutil |-> f] :
            r \in {ParserRaises, Aware(MaxTime)},
            f \in {ParserRaises, Aware(MaxTime)} \cup {Naive(t) : t \in Instants}}

Texts == UNION {[1..n -> PotentialDates] : n \in 0..MaxStrings}

\* Line 86: parsed_date > reference_date - timedelta(days=1).
WithinBuffer(parsed_date, reference_date) == parsed_date > reference_date - Day

\* Mutant of WithinBufferFallback: the fallback path keeps every date.
WithinBufferFallback_KeepsAll(parsed_date, reference_date) == TRUE

\* Line 93: the same test on the fallback path.
WithinBufferFallback(parsed_date, reference_date) ==
    parsed_date > reference_date - Day

EdOff == [pc |-> "off", reference_date |-> 0, potential_dates |-> <<>>, i |-> 0,
          dates |-> <<>>, path |-> <<>>, result |-> <<>>]

\* Lines 75-87: the try block of one date string.  It appends the date, or
\* skips the string, or raises ValueError or TypeError.
ExtractTryDateparser ==
    /\ ed.pc = "try"
    /\ ed.i <= Len(ed.potential_dates)
    /\ LET r == ed.potential_dates[ed.i].dateparser
       IN CASE r.kind = "none" ->
                 ed' = [ed EXCEPT !.i = @ + 1]
            [] r.kind = "naive" ->
                 ed' = [ed EXCEPT !.i = @ + 1,
                                  !.dates = IF WithinBuffer(r.at, ed.reference_date)
                                            THEN Append(@, r.at) ELSE @,
                                  !.path = IF WithinBuffer(r.at, ed.reference_date)
                                           THEN Append(@, "dateparser") ELSE @]
            [] OTHER ->
                 ed' = [ed EXCEPT !.pc = "except"]
    /\ UNCHANGED <<storeVars, clock, pc, caller, record, existing, outcome, ops,
                   mailbox, gemini, ce, loopVars, kanbanVars, sp, xc, board_data>>

\* Lines 89-96: the except clause, dateutil's parser.
ExtractTryDateutil ==
    /\ ed.pc = "except"
    /\ LET f == ed.potential_dates[ed.i].dateutil
       IN IF f.kind = "naive" /\ WithinBufferFallback(f.at, ed.reference_date)
          THEN ed' = [ed EXCEPT !.pc = "try", !.i = @ + 1,
                                !.dates = Append(@, f.at),
                                !.path = Append(@, "dateutil")]
          ELSE ed' = [ed EXCEPT !.pc = "try", !.i = @ + 1]
    /\ UNCHANGED <<storeVars, clock, pc, caller, record, existing, outcome, ops,
                   mailbox, gemini, ce, loopVars, kanbanVars, sp, xc, board_data>>

\* Lines 98-102: duplicates removed, sorted, returned.
ExtractReturn ==
    /\ ed.pc = "try"
    /\ ed.i > Len(ed.potential_dates)
    /\ ed' = [ed EXCEPT !.pc = "done", !.result = unique_dates(ed.dates)]
    /\ UNCHANGED <<storeVars, clock, pc, caller, record, existing, outcome, ops,
                   mailbox, gemini, ce, loopVars, kanbanVars, sp, xc, board_data>>

(***************************************************************************)
(* is_job_board_spam (smart_spam_detection.py).  Pieces gives the pieces   *)
(* of the lower-cased From header, cut so that every domain name in it is  *)
(* one piece; a domain is "in" the header (Python's substring test) when   *)
(* it is one of the pieces.                                                *)
(***************************************************************************)
\* str.lower() of the company names tried.
Lower(s) ==
    CASE s = "Naukri" -> "naukri"
      [] s = "NAUKRI" -> "naukri"
      [] s = "Indeed" -> "indeed"
      [] s = "Monster" -> "monster"
      [] s = "Glassdoor" -> "glassdoor"
      [] s = "Techcorp" -> "techcorp"
      [] s = "Naukri Recruiters" -> "naukri recruiters"
      [] OTHER -> s

Pieces(from_email) ==
    CASE from_email = "" -> <<>>
      [] from_email = "alerts@naukri.com" -> <<"alerts", "@", "naukri.com">>
      [] from_email = "Alerts@Naukri.COM" -> <<"alerts", "@", "naukri.com">>
      [] from_email = "hr@techcorp.io" -> <<"hr", "@", "techcorp.io">>
      [] from_email = "jobs@indeed.com" -> <<"jobs", "@", "indeed.com">>
      [] from_email = "alerts@monster.com" -> <<"alerts", "@", "monster.com">>
      [] from_email = "noreply@glassdoor.com" -> <<"noreply", "@", "glassdoor.com">>
      [] from_email = "Jane Doe <jane@techcorp.io>" ->
            <<"jane doe <", "jane", "@", "techcorp.io", ">">>
      [] from_email = "Naukri.com Jobs <hr@techcorp.io>" ->
            <<"naukri.com", " jobs <", "hr", "@", "techcorp.io", ">">>
      [] from_email = "hr@startup.ai" -> <<"hr", "@", "startup.ai">>
      [] OTHER -> <<"?">>

job_board_domains ==
    {"naukri.com", "shine.com", "monster.com", "timesjobs.com", "foundit.in",
     "glassdoor.com", "indeed.com"}

job_board_names ==
    {"naukri", "shine", "monster", "timesjobs", "foundit", "glassdoor", "indeed"}

\* domain in from_lower.
DomainIn(domain, from_email) ==
    \E k \in DOMAIN Pieces(from_email) : Pieces(from_email)[k] = domain

is_job_board_spam(company, from_email) ==
    IF company = "" \/ company = NULL THEN FALSE
    ELSE /\ Lower(company) \in job_board_names
         /\ \E domain \in job_board_domains : DomainIn(domain, from_email)

SpamCompanies ==
    {"", "Naukri", "naukri", "NAUKRI", "Indeed", "Monster", "Glassdoor", "shine",
     "Techcorp", "Naukri Recruiters"}

SpamSenders ==
    {"", "alerts@naukri.com", "Alerts@Naukri.COM", "hr@techcorp.io",
     "jobs@indeed.com", "alerts@monster.com", "noreply@glassdoor.com",
     "Jane Doe <jane@techcorp.io>", "Naukri.com Jobs <hr@techcorp.io>",
     "hr@startup.ai"}

SpOff == [pc |-> "off", company |-> "", from_email |-> "", result |-> FALSE]

IsJobBoardSpam ==
    /\ sp.pc = "call"
    /\ sp' = [sp EXCEPT !.pc = "done",
                        !.result = is_job_board_spam(sp.company, sp.from_email)]
    /\ UNCHANGED <<storeVars, clock, pc, caller, record, existing, outcome, ops,
                   mailbox, gemini, ce, loopVars, kanbanVars, ed, xc, board_data>>

(***************************************************************************)
(* extract_company (parser_utils.py), followed through its strategies.     *)
(* The From headers and subjects tried are listed with what parseaddr,     *)
(* split('@') and the regular expressions make of them.                    *)
(***************************************************************************)
CompanyHeaders ==
    {"", "Jane Doe <jane@techcorp.io>", "hr@startup.ai", "jobseeker@gmail.com",
     "Acme Recruiter <acme.hr@gmail.com>", "Recruiter <x@gmail.com>",
     "Acme Recruiter <acme.hr@hotmail.com>", "bob@yahoo.com", "bob@outlook.com",
     "bob@hotmail.com", "bob@aol.com", "bob@icloud.com", "bob@protonmail.com",
     "bob@zoho.com"}

CompanySubjects ==
    {"Your application", "Interview with Acme team", "Interview with the team"}

\* email.utils.parseaddr(from_header)[0], the display name.
DisplayName(from_header) ==
    CASE from_header = "Jane Doe <jane@techcorp.io>" -> "Jane Doe"
      [] from_header = "Acme Recruiter <acme.hr@gmail.com>" -> "Acme Recruiter"
      [] from_header = "Recruiter <x@gmail.com>" -> "Recruiter"
      [] from_header = "Acme Recruiter <acme.hr@hotmail.com>" -> "Acme Recruiter"
      [] OTHER -> ""

\* email_address.split('@')[-1].lower() of the parsed address.
DomainOf(from_header) ==
    CASE from_header = "Jane Doe <jane@techcorp.io>" -> "techcorp.io"
      [] from_header = "hr@startup.ai" -> "startup.ai"
      [] from_header \in {"jobseeker@gmail.com", "Acme Recruiter <acme.hr@gmail.com>",
                          "Recruiter <x@gmail.com>"} -> "gmail.com"
      [] from_header = "Acme Recruiter <acme.hr@hotmail.com>" -> "hotmail.com"
      [] from_header = "bob@yahoo.com" -> "yahoo.com"
      [] from_header = "bob@outlook.com" -> "outlook.com"
      [] from_header = "bob@hotmail.com" -> "hotmail.com"
      [] from_header = "bob@aol.com" -> "aol.com"
      [] from_header = "bob@icloud.com" -> "icloud.com"
      [] from_header = "bob@protonmail.com" -> "protonmail.com"
      [] from_header = "bob@zoho.com" -> "zoho.com"
      [] OTHER -> ""

\* The domain without "www." and its suffix, title-cased.
CompanyOfDomain(domain) ==
    CASE domain = "techcorp.io" -> "Techcorp"
      [] domain = "startup.ai" -> "Startup"
      [] domain = "gmail.com" -> "Gmail"
      [] domain = "yahoo.com" -> "Yahoo"
      [] domain = "outlook.com" -> "Outlook"
      [] domain = "hotmail.com" -> "Hotmail"
      [] domain = "aol.com" -> "Aol"
      [] domain = "icloud.com" -> "Icloud"
      [] domain = "protonmail.com" -> "Protonmail"
      [] domain = "zoho.com" -> "Zoho"
      [] OTHER -> NULL

common_providers ==
    {"gmail.com", "yahoo.com", "outlook.com", "hotmail.com", "aol.com",
     "icloud.com", "protonmail.com", "zoho.com"}

\* Line 223: the providers for which strategy 3 looks at the display name.
DisplayNameProviders == {"gmail.com", "yahoo.com", "outlook.com"}

extract_company_from_email(from_header) ==
    IF from_header = "" THEN NULL
    ELSE IF DomainOf(from_header) \in common_providers THEN NULL
    ELSE CompanyOfDomain(DomainOf(from_header))

\* The first match of the patterns that is no false positive.  "Interview
\* with the team" matches with "The", which is filtered out.
extract_company_from_text(subject, body) ==
    IF subject = "Interview with Acme team" THEN "Acme" ELSE NULL

\* Lines 226-230: what stands before "recruiter" in the display name,
\* title-cased; NULL without "recruiter", "" when nothing stands before it.
BeforeRecruiter(display_name) ==
    CASE display_name = "Acme Recruiter" -> "Acme"
      [] display_name = "Recruiter" -> ""
      [] OTHER -> NULL

\* Lines 215-239, strategy 3.
FallbackCompany(from_header) ==
    IF from_header = "" \/ DomainOf(from_header) = "" THEN NULL
    ELSE IF DomainOf(from_header) \in DisplayNameProviders
    THEN (IF IsTruthy(BeforeRecruiter(DisplayName(from_header)))
          THEN BeforeRecruiter(DisplayName(from_header))
          ELSE NULL)
    ELSE CompanyOfDomain(DomainOf(from_header))

XcOff == [pc |-> "off", from_header |-> "", subject |-> "", result |-> NULL]

\* Lines 205-208, strategy 1.
CompanyStrategyDomain ==
    /\ xc.pc = "email"
    /\ xc' = IF IsTruthy(extract_company_from_email(xc.from_header))
             THEN [xc EXCEPT !.pc = "done",
                             !.result = extract_company_from_email(xc.from_header)]
             ELSE [xc EXCEPT !.pc = "text"]
    /\ UNCHANGED <<storeVars, clock, pc, caller, record, existing, outcome, ops,
                   mailbox, gemini, ce, loopVars, kanbanVars, ed, sp, board_data>>

\* Lines 210-213, strategy 2.
CompanyStrategyText ==
    /\ xc.pc = "text"
    /\ xc' = IF IsTruthy(extract_company_from_text(xc.subject, ""))
             THEN [xc EXCEPT !.pc = "done",
                             !.result = extract_company_from_text(xc.subject, "")]
             ELSE [xc EXCEPT !.pc = "fallback"]
    /\ UNCHANGED <<storeVars, clock, pc, caller, record, existing, outcome, ops,
                   mailbox, gemini, ce, loopVars, kanbanVars, ed, sp, board_data>>

\* Lines 215-241, strategy 3 and the final return None.
CompanyStrategyFallback ==
    /\ xc.pc = "fallback"
    /\ xc' = [xc EXCEPT !.pc = "done", !.result = FallbackCompany(xc.from_header)]
    /\ UNCHANGED <<storeVars, clock, pc, caller, record, existing, outcome, ops,
                   mailbox, gemini, ce, loopVars, kanbanVars, ed, sp, board_data>>

(***************************************************************************)
(* The answers of the model tried in the ingestion runs.                   *)
(***************************************************************************)
JsonObject(cat, conf, comp, rl, sched, sugg) ==
    [category |-> cat, confidence |-> conf, reasoning |-> "because",
     company |-> comp, role |-> rl, interview_scheduled |-> sched,
     status_suggestion |-> sugg]

Number(v) == [type |-> "number", v |-> v]
NoObject == JsonObject(ABSENT, [type |-> "absent", v |-> 0], ABSENT, ABSENT, ABSENT, ABSENT)

AnswerRaise == [kind |-> "raise", fence |-> "none", json |-> "invalid", obj |-> NoObject]
AnswerText(fence, json, obj) == [kind |-> "text", fence |-> fence, json |-> json, obj |-> obj]

IngestAnswers ==
    {AnswerRaise,
     AnswerText("none", "invalid", NoObject),
     AnswerText("json", "object",
         JsonObject("job_application", Number(12), "Acme AI", ABSENT, "false", "pending"))}

(***************************************************************************)
(* The "Fetch Interview Emails" handler (app.py): skip by category, status *)
(* from the suggestion and the keyword overrides, the candidate record.    *)
(***************************************************************************)
scheduling_keywords ==
    {<<"interview", "scheduled">>, <<"interview", "confirmed">>,
     <<"interview", "invitation">>, <<"please", "join">>, <<"zoom", "link">>,
     <<"meeting", "link">>, <<"interview", "tomorrow">>, <<"interview", "on">>,
     <<"interview", "at">>, <<"confirmed", "interview">>}
offer_keywords == {<<"congratulations">>, <<"offer">>, <<"selected">>, <<"hired">>}
rejection_keywords ==
    {<<"rejected">>, <<"unfortunately">>, <<"not", "selected">>,
     <<"not", "moving", "forward">>}
screening_keywords == {<<"screening">>, <<"phone", "screen">>, <<"initial", "call">>}

\* Mutant of Or: the second operand is preferred.
Or_SecondFirst(a, b) == IF IsTruthy(b) THEN b ELSE a

Or(a, b) == IF IsTruthy(a) THEN a ELSE b

\* Lines 305-310: the emails the loop skips.  An exception of the loop body
\* is caught at line 361 and the loop goes on to the next email.
SkippedCategory(cls) == cls.category = "promotional" \/ cls.category = "other"

\* Mutant of ComputeStatus: four independent ifs, the last match wins.
ComputeStatus_LastWins(parsed_data, cls) ==
    LET content == JoinWords(Words(parsed_data.subject), Words(parsed_data.body))
    IN IF ContainsAny(content, screening_keywords) THEN "interview_scheduled"
       ELSE IF ContainsAny(content, rejection_keywords) THEN "rejected"
       ELSE IF ContainsAny(content, offer_keywords) THEN "offer"
       ELSE IF ContainsAny(content, scheduling_keywords)
               /\ parsed_data.interview_dates # <<>>
       THEN "interview_scheduled"
       ELSE IF IsTruthy(cls.status_suggestion) THEN cls.status_suggestion
       ELSE "applied"

\* Mutant of ComputeStatus: the screening keywords are tested before the
\* offer and rejection keywords.
ComputeStatus_ScreeningFirst(parsed_data, cls) ==
    LET content == JoinWords(Words(parsed_data.subject), Words(parsed_data.body))
    IN IF ContainsAny(content, scheduling_keywords) /\ parsed_data.interview_dates # <<>>
       THEN "interview_scheduled"
       ELSE IF ContainsAny(content, screening_keywords) THEN "interview_scheduled"
       ELSE IF ContainsAny(content, offer_keywords) THEN "offer"
       ELSE IF ContainsAny(content, rejection_keywords) THEN "rejected"
       ELSE IF IsTruthy(cls.status_suggestion) THEN cls.status_suggestion
       ELSE "applied"

\* Mutant of ComputeStatus: the scheduling keywords override without a date.
ComputeStatus_NoDateNeeded(parsed_data, cls) ==
    LET content == JoinWords(Words(parsed_data.subject), Words(parsed_data.body))
    IN IF ContainsAny(content, scheduling_keywords) THEN "interview_scheduled"
       ELSE IF ContainsAny(content, offer_keywords) THEN "offer"
       ELSE IF ContainsAny(content, rejection_keywords) THEN "rejected"
       ELSE IF ContainsAny(content, screening_keywords) THEN "interview_scheduled"
       ELSE IF IsTruthy(cls.status_suggestion) THEN cls.status_suggestion
       ELSE "applied"

\* Lines 316-337.
ComputeStatus(parsed_data, cls) ==
    LET content == JoinWords(Words(parsed_data.subject), Words(parsed_data.body))
    IN IF ContainsAny(content, scheduling_keywords) /\ parsed_data.interview_dates # <<>>
       THEN "interview_scheduled"
       ELSE IF ContainsAny(content, offer_keywords) THEN "offer"
       ELSE IF ContainsAny(content, rejection_keywords) THEN "rejected"
       ELSE IF ContainsAny(content, screening_keywords) THEN "interview_scheduled"
       ELSE IF IsTruthy(cls.status_suggestion) THEN cls.status_suggestion
       ELSE "applied"

\* Lines 340-355.
CandidateRecord(parsed_data, cls) ==
    LET status == ComputeStatus(parsed_data, cls)
        base == [msg_id |-> parsed_data.message_id,
                 company |-> Or(cls.company, parsed_data.company),
                 role |-> Or(cls.role, parsed_data.role),
                 source |-> "gmail",
                 status |-> status,
                 snippet |-> parsed_data.snippet,
                 email_subject |-> parsed_data.subject,
                 email_from |-> parsed_data.from]
    IN IF parsed_data.interview_dates # <<>>
          /\ (cls.interview_scheduled \/ status = "interview_scheduled")
       THEN base @@ [interview_date |-> parsed_data.interview_dates[1],
                     interview_round |-> "unknown"]
       ELSE base

(***************************************************************************)
(* upsert_application (db_utils.py).  The call is split at its SQL         *)
(* statements: lines 86-103 (prepare the record, SELECT by msg_id), lines  *)
(* 105-131 (UPDATE or INSERT, which opens the write transaction), line 133 *)
(* (COMMIT).  A sqlite3.Error rolls back and is re-raised.                 *)
(***************************************************************************)

\* Lines 91-98: datetime values become ISO strings, updated_at is set to now.
\* Every caller modelled here passes datetime objects for the two date keys.
PrepareRecord(rec, now) ==
    [k \in DOMAIN rec \cup {"updated_at"} |->
        IF k = "updated_at" THEN now
        ELSE IF k \in {"date_applied", "interview_date"} THEN isoformat(rec[k])
        ELSE rec[k]]

\* record.get('msg_id') is truthy: present, not None, not the empty string.
HasMsgId(rec) == "msg_id" \in DOMAIN rec /\ IsTruthy(rec["msg_id"])

\* Lines 102-103: SELECT id FROM applications WHERE msg_id = ?; fetchone().
SelectId(rows, m) ==
    IF RowsWithMsgId(rows, m) = {} THEN 0
    ELSE (CHOOSE r \in RowsWithMsgId(rows, m) : TRUE)["id"]

\* Mutant of UpdateRow: the columns the record does not carry are reset.
UpdateRow_ClearsAbsent(row, rec) ==
    [c \in Columns |->
        IF c \in DOMAIN rec /\ c # "id" THEN rec[c]
        ELSE IF c \in {"interview_date", "interview_round"} THEN NULL
        ELSE row[c]]

\* Mutant of UpdateRow: the UPDATE also overwrites created_at.
UpdateRow_TouchesCreatedAt(row, rec) ==
    [c \in Columns |->
        IF c = "created_at" THEN rec["updated_at"]
        ELSE IF c \in DOMAIN rec /\ c # "id" THEN rec[c] ELSE row[c]]

\* Lines 107-123: UPDATE applications SET <every key but id> WHERE msg_id = ?.
UpdateRow(row, rec) ==
    [c \in Columns |-> IF c \in DOMAIN rec /\ c # "id" THEN rec[c] ELSE row[c]]

\* Mutant of UpdateRows: the update branch adds the new version of the row
\* and keeps the old one.
UpdateRows_KeepsOldRow(rows, rec) ==
    rows \cup {[UpdateRow(r, rec) EXCEPT !["id"] = r["id"] + Cardinality(rows)] :
                  r \in RowsWithMsgId(rows, rec["msg_id"])}

UpdateRows(rows, rec) ==
    {IF r \in RowsWithMsgId(rows, rec["msg_id"]) THEN UpdateRow(r, rec) ELSE r :
        r \in rows}

\* _insert_new_record: INSERT INTO applications (<keys>) VALUES (...); the
\* other columns take their defaults, id the next AUTOINCREMENT value.
insert_new_record(rec, newId, now) ==
    [c \in Columns |->
        IF c \in DOMAIN rec THEN rec[c]
        ELSE IF c = "id" THEN newId
        ELSE IF c \in TimestampColumns THEN now
        ELSE ColumnDefault(c)]

\* Mutant of InsertRefused: the column msg_id is not declared UNIQUE.
InsertRefused_NoConstraint(rows, row) == FALSE

\* The INSERT statement is refused by the UNIQUE constraint on msg_id.
InsertRefused(rows, row) == UniqueViolated(rows, row)

NoRecord == <<>>

\* Mutant of Rollback: the row of the refused INSERT stays in the table.
Rollback_KeepsRow(rows, row) == rows \cup {row}

\* Lines 136-139: the INSERT of row was refused; conn.rollback() leaves the
\* table with the rows committed before.
Rollback(rows, row) == rows

\* Mutant of ReturnToCaller: an exception of upsert_application ends the
\* batch loop.
ReturnToCaller_Aborts(p, ok) ==
    /\ record' = [record EXCEPT ![p] = NoRecord]
    /\ existing' = [existing EXCEPT ![p] = 0]
    /\ IF caller[p] = "fetch" /\ ok
       THEN /\ pc' = [pc EXCEPT ![p] = "loop"]
            /\ idx' = [idx EXCEPT ![p] = @ + 1]
            /\ processed_count' = [processed_count EXCEPT ![p] = @ + 1]
            /\ UNCHANGED caller
       ELSE /\ pc' = [pc EXCEPT ![p] = "idle"]
            /\ caller' = [caller EXCEPT ![p] = "none"]
            /\ UNCHANGED <<idx, processed_count>>

\* upsert_application returns, or raises, to the handler that called it: the
\* batch loop counts a success and goes on to the next email either way
\* (lines 359-363), the manual entry form reports and ends.
ReturnToCaller(p, ok) ==
    /\ record' = [record EXCEPT ![p] = NoRecord]
    /\ existing' = [existing EXCEPT ![p] = 0]
    /\ IF caller[p] = "fetch"
       THEN /\ pc' = [pc EXCEPT ![p] = "loop"]
            /\ idx' = [idx EXCEPT ![p] = @ + 1]
            /\ processed_count' = [processed_count EXCEPT ![p] = IF ok THEN @ + 1 ELSE @]
            /\ UNCHANGED caller
       ELSE /\ pc' = [pc EXCEPT ![p] = "idle"]
            /\ caller' = [caller EXCEPT ![p] = "none"]
            /\ UNCHANGED <<idx, processed_count>>

UpsertSelect(p) ==
    /\ pc[p] = "upsert"
    /\ LET rec == PrepareRecord(record[p], clock)
       IN /\ record' = [record EXCEPT ![p] = rec]
          /\ existing' = [existing EXCEPT ![p] =
                IF HasMsgId(rec) THEN SelectId(applications, rec["msg_id"]) ELSE 0]
    /\ pc' = [pc EXCEPT ![p] = "write"]
    /\ UNCHANGED <<storeVars, clock, caller, outcome, ops, envVars, loopVars>>

\* The statement gets the write lock: UPDATE when the SELECT found a row,
\* INSERT otherwise.  A refused INSERT raises sqlite3.IntegrityError.
UpsertWrite(p) ==
    /\ pc[p] = "write"
    /\ db_lock = 0
    /\ IF existing[p] # 0
       THEN /\ pending' = [pending EXCEPT ![p] =
                  [kind |-> "update", rows |-> UpdateRows(applications, record[p]),
                   seq |-> sqlite_sequence, id |-> existing[p]]]
            /\ db_lock' = p
            /\ pc' = [pc EXCEPT ![p] = "commit"]
            /\ UNCHANGED <<applications, outcome, record, existing, caller, loopVars>>
       ELSE LET row == insert_new_record(record[p], sqlite_sequence + 1, clock)
            IN IF InsertRefused(applications, row)
               THEN /\ outcome' = [outcome EXCEPT ![p] =
                          [kind |-> "IntegrityError", id |-> 0]]
                    /\ applications' = Rollback(applications, row)
                    /\ ReturnToCaller(p, FALSE)
                    /\ UNCHANGED <<pending, db_lock, ai_classification>>
               ELSE /\ pending' = [pending EXCEPT ![p] =
                          [kind |-> "insert", rows |-> applications \cup {row},
                           seq |-> sqlite_sequence + 1, id |-> sqlite_sequence + 1]]
                    /\ db_lock' = p
                    /\ pc' = [pc EXCEPT ![p] = "commit"]
                    /\ UNCHANGED <<applications, outcome, record, existing, caller,
                                   loopVars>>
    /\ UNCHANGED <<sqlite_sequence, clock, ops, envVars>>

\* Another connection holds the write lock and the busy timeout (5 s) runs
\* out: sqlite3.OperationalError "database is locked".
UpsertBusy(p) ==
    /\ pc[p] = "write"
    /\ db_lock \notin {0, p}
    /\ outcome' = [outcome EXCEPT ![p] = [kind |-> "OperationalError", id |-> 0]]
    /\ ReturnToCaller(p, FALSE)
    /\ UNCHANGED <<storeVars, clock, ops, envVars, ai_classification>>

\* Lines 133-134: conn.commit(); return record_id.
UpsertCommit(p) ==
    /\ pc[p] = "commit"
    /\ applications' = pending[p].rows
    /\ sqlite_sequence' = pending[p].seq
    /\ db_lock' = 0
    /\ outcome' = [outcome EXCEPT ![p] = [kind |-> "ok", id |-> pending[p].id]]
    /\ pending' = [pending EXCEPT ![p] = NoWrite]
    /\ ReturnToCaller(p, TRUE)
    /\ UNCHANGED <<clock, ops, envVars, ai_classification>>

\* The upsert_application calls a handler may come to make: one per fetched
\* email, one for a form.
Work(box) == IF box = <<>> THEN 1 ELSE Len(box)

\* A session may start a handler while the budget covers its work.  The
\* sessions are interchangeable, so the first handler is taken to run in
\* session 1.
MayStart(p, work) == pc[p] = "idle" /\ ops + work <= MaxOps /\ (ops = 0 => p = 1)

(***************************************************************************)
(* The batch loop of the "Fetch Interview Emails" handler.                 *)
(***************************************************************************)
FetchInterviewEmails(p) ==
    /\ MayStart(p, Work(mailbox))
    /\ ops' = ops + Work(mailbox)
    /\ outcome' = [outcome EXCEPT ![p] = NoOutcome]
    /\ IF mailbox # <<>>
       THEN /\ pc' = [pc EXCEPT ![p] = "loop"]
            /\ caller' = [caller EXCEPT ![p] = "fetch"]
            /\ idx' = [idx EXCEPT ![p] = 1]
            /\ processed_count' = [processed_count EXCEPT ![p] = 0]
       ELSE UNCHANGED <<pc, caller, idx, processed_count>>
    /\ clock' = clock + 1
    /\ UNCHANGED <<storeVars, record, existing, envVars, ai_classification>>

\* One pass of the loop body, lines 298-357, up to the upsert_application
\* call; answers are the answers the model may give.
ProcessEmailWith(p, answers) ==
    /\ pc[p] = "loop"
    /\ idx[p] <= Len(mailbox)
    /\ \E answer \in answers :
        LET email == EmailAt(mailbox, idx[p])
            parsed_data == parse_interview_email(email)
            call == classify_email(gemini, answer, email)
            cls == call.value
        IN /\ ai_classification' = [ai_classification EXCEPT ![p] = cls]
           /\ outcome' = [outcome EXCEPT ![p] = NoOutcome]
           /\ IF call.exc # "none" \/ SkippedCategory(cls)
              THEN /\ idx' = [idx EXCEPT ![p] = @ + 1]
                   /\ UNCHANGED <<pc, record>>
              ELSE /\ record' = [record EXCEPT ![p] = CandidateRecord(parsed_data, cls)]
                   /\ pc' = [pc EXCEPT ![p] = "upsert"]
                   /\ UNCHANGED idx
    /\ UNCHANGED <<storeVars, clock, caller, existing, ops, envVars,
                   processed_count>>

ProcessEmail(p) == ProcessEmailWith(p, IngestAnswers)

\* Line 365: what the handler reports after the loop,
\* f"Processed {processed_count} emails successfully!".
Summary(p) == [processed |-> processed_count[p]]

\* Line 365-366: the loop is over; st.success, st.rerun.
FinishBatch(p) ==
    /\ pc[p] = "loop"
    /\ idx[p] > Len(mailbox)
    /\ pc' = [pc EXCEPT ![p] = "idle"]
    /\ caller' = [caller EXCEPT ![p] = "none"]
    /\ idx' = [idx EXCEPT ![p] = 0]
    /\ ai_classification' = [ai_classification EXCEPT ![p] = NoClassification]
    /\ outcome' = [outcome EXCEPT ![p] = NoOutcome]
    /\ processed_count' = [processed_count EXCEPT ![p] = 0]
    /\ UNCHANGED <<storeVars, clock, record, existing, ops, envVars>>

(***************************************************************************)
(* The manual entry form (app.py): a record without msg_id.                *)
(***************************************************************************)
ManualForms ==
    {[company |-> "Acme", status |-> "applied", interview_date |-> 0,
      interview_round |-> ""],
     [company |-> "Acme", status |-> "interview_scheduled", interview_date |-> 2,
      interview_round |-> "technical"]}

ManualRecord(form, today) ==
    LET base == [company |-> form.company, role |-> "", source |-> "manual",
                 date_applied |-> today, status |-> form.status, notes |-> ""]
        withDate == IF form.interview_date # 0
                    THEN base @@ [interview_date |-> form.interview_date]
                    ELSE base
    IN IF form.interview_round # ""
       THEN withDate @@ [interview_round |-> form.interview_round]
       ELSE withDate

AddApplication(p) ==
    /\ MayStart(p, 1)
    /\ ops' = ops + 1
    /\ \E form \in ManualForms :
          record' = [record EXCEPT ![p] = ManualRecord(form, 1)]
    /\ caller' = [caller EXCEPT ![p] = "manual"]
    /\ outcome' = [outcome EXCEPT ![p] = NoOutcome]
    /\ pc' = [pc EXCEPT ![p] = "upsert"]
    /\ clock' = clock + 1
    /\ UNCHANGED <<storeVars, existing, envVars, loopVars>>

(***************************************************************************)
(* One call of classify_email, step by step: line 75 (is there a model),   *)
(* line 87 (the call of the model), line 90 (_parse_ai_response), lines    *)
(* 77 and 92-95 (the rule-based fallback).  ce counts the calls of the     *)
(* model, the runs of the parser and the runs of the rule-based fallback.  *)
(***************************************************************************)
ClassifyEmails ==
    Fixtures \cup
    {[subject |-> "Your application", from |-> "hr@startup.ai",
      snippet |-> "Unfortunately we are not moving forward",
      body |-> "Unfortunately we are not moving forward",
      x_company |-> "Startup", x_role |-> "Data Scientist", x_dates |-> <<>>],
     [subject |-> "Job Alert: 1000+ Jobs!", from |-> "alerts@naukri.com",
      snippet |-> "", body |-> "Please join via the Zoom link",
      x_company |-> "Naukri", x_role |-> NULL, x_dates |-> <<>>],
     [subject |-> "Your application", from |-> "hr@startup.ai",
      snippet |-> "Interview scheduled", body |-> "",
      x_company |-> "Startup", x_role |-> NULL, x_dates |-> <<>>]}

JsonConfidences ==
    {[type |-> "absent", v |-> 0], [type |-> "number", v |-> -5],
     [type |-> "number", v |-> 0], [type |-> "number", v |-> 9],
     [type |-> "number", v |-> 10], [type |-> "number", v |-> 15],
     [type |-> "numstr", v |-> 7], [type |-> "word", v |-> 0],
     [type |-> "null", v |-> 0]}

JsonObjects ==
    {JsonObject(cat, conf, comp, ABSENT, sched, sugg) :
        cat \in {ABSENT, "job_interview", "promotional", "irrelevant", "other"},
        conf \in JsonConfidences,
        comp \in {NULL, "Acme AI"},
        sched \in {ABSENT, "true", "'false'"},
        sugg \in {ABSENT, NULL, "", "interview_scheduled", "offer", "pending"}}

ClassifyAnswers ==
    {AnswerRaise}
    \cup {AnswerText(f, j, NoObject) : f \in Fences, j \in {"invalid", "array"}}
    \cup {AnswerText(f, "object", o) : f \in Fences, o \in JsonObjects}

CeOff == [pc |-> "off", email |-> CHOOSE e \in Fixtures : TRUE, answer |-> AnswerRaise,
          model_calls |-> 0, parse_runs |-> 0, fallback_runs |-> 0, exc |-> "none",
          result |-> Raise("pending")]

\* Mutant of AfterCall: a failed call of the model is tried once more.
AfterCall_Retries(r, calls) ==
    IF r.exc # "none" THEN (IF calls < 2 THEN "call" ELSE "except") ELSE "parse"

\* Where classify_email goes after the call of the model returned or raised.
AfterCall(r, calls) == IF r.exc # "none" THEN "except" ELSE "parse"

\* Where classify_email goes after _parse_ai_response returned or raised.
AfterParse(r) == IF r.exc # "none" THEN "except" ELSE "done"

ClassifyCheckModel ==
    /\ ce.pc = "start"
    /\ ce' = [ce EXCEPT !.pc = IF ModelMissing(gemini) THEN "fallback" ELSE "call"]
    /\ UNCHANGED <<storeVars, clock, pc, caller, record, existing, outcome, ops,
                   mailbox, gemini, loopVars, kanbanVars, utilVars>>

ClassifyCallModel ==
    /\ ce.pc = "call"
    /\ LET r == GenerateContent(ce.answer)
       IN ce' = [ce EXCEPT !.model_calls = @ + 1,
                           !.exc = r.exc,
                           !.pc = AfterCall(r, ce.model_calls + 1)]
    /\ UNCHANGED <<storeVars, clock, pc, caller, record, existing, outcome, ops,
                   mailbox, gemini, loopVars, kanbanVars, utilVars>>

ClassifyParse ==
    /\ ce.pc = "parse"
    /\ LET r == parse_ai_response(ce.answer)
       IN ce' = [ce EXCEPT !.parse_runs = @ + 1,
                           !.exc = r.exc,
                           !.result = IF AfterParse(r) = "done" THEN r ELSE @,
                           !.pc = AfterParse(r)]
    /\ UNCHANGED <<storeVars, clock, pc, caller, record, existing, outcome, ops,
                   mailbox, gemini, loopVars, kanbanVars, utilVars>>

ClassifyFallback ==
    /\ ce.pc \in {"fallback", "except"}
    /\ ce' = [ce EXCEPT !.fallback_runs = @ + 1,
                        !.result = IF ce.pc = "except"
                                   THEN ClassifyExcept(ce.exc, ce.email)
                                   ELSE Return(fallback_classification(ce.email)),
                        !.pc = "done"]
    /\ UNCHANGED <<storeVars, clock, pc, caller, record, existing, outcome, ops,
                   mailbox, gemini, loopVars, kanbanVars, utilVars>>

\* get_board_data has not been called.
NoBoard == <<>>

\* move_application_to_stage has not been called.
NoMove == [app_id |-> 0, new_stage |-> "", outcome |-> "none"]

\* No handler is running and nothing but applications is stored.
InitSessions ==
    /\ clock = 0
    /\ db_lock = 0
    /\ pending = [p \in Procs |-> NoWrite]
    /\ pc = [p \in Procs |-> "idle"]
    /\ caller = [p \in Procs |-> "none"]
    /\ record = [p \in Procs |-> NoRecord]
    /\ existing = [p \in Procs |-> 0]
    /\ outcome = [p \in Procs |-> NoOutcome]
    /\ ops = 0
    /\ idx = [p \in Procs |-> 0]
    /\ ai_classification = [p \in Procs |-> NoClassification]
    /\ processed_count = [p \in Procs |-> 0]
    /\ application_notes = {}
    /\ stage_transitions = {}
    /\ kanban_sequence = [application_notes |-> 0, stage_transitions |-> 0]
    /\ last_move = NoMove

InitStore ==
    /\ applications = {}
    /\ sqlite_sequence = 0
    /\ InitSessions

\* No call of a parser utility is followed.
UtilsOff == ed = EdOff /\ sp = SpOff /\ xc = XcOff /\ board_data = NoBoard

\* One extract_dates call on every text and reference time tried.
InitDates ==
    /\ InitStore
    /\ mailbox = <<>>
    /\ gemini = TRUE
    /\ ce = CeOff
    /\ \E text \in Texts, reference_date \in Instants :
          ed = [EdOff EXCEPT !.pc = "try", !.reference_date = reference_date,
                             !.potential_dates = text, !.i = 1]
    /\ sp = SpOff
    /\ xc = XcOff
    /\ board_data = NoBoard

NextDates ==
    \/ ExtractTryDateparser
    \/ ExtractTryDateutil
    \/ ExtractReturn

SpecDates == InitDates /\ [][NextDates]_vars

\* One is_job_board_spam call on every company and sender tried.
InitSpam ==
    /\ InitStore
    /\ mailbox = <<>>
    /\ gemini = TRUE
    /\ ce = CeOff
    /\ ed = EdOff
    /\ \E company \in SpamCompanies, from_email \in SpamSenders :
          sp = [SpOff EXCEPT !.pc = "call", !.company = company,
                             !.from_email = from_email]
    /\ xc = XcOff
    /\ board_data = NoBoard

NextSpam == IsJobBoardSpam

SpecSpam == InitSpam /\ [][NextSpam]_vars

\* One extract_company call on every From header and subject tried.
InitCompany ==
    /\ InitStore
    /\ mailbox = <<>>
    /\ gemini = TRUE
    /\ ce = CeOff
    /\ ed = EdOff
    /\ sp = SpOff
    /\ \E from_header \in CompanyHeaders, subject \in CompanySubjects :
          xc = [XcOff EXCEPT !.pc = "email", !.from_header = from_header,
                             !.subject = subject]
    /\ board_data = NoBoard

NextCompany ==
    \/ CompanyStrategyDomain
    \/ CompanyStrategyText
    \/ CompanyStrategyFallback

SpecCompany == InitCompany /\ [][NextCompany]_vars

\* The ingestion runs have a model: without one every email gets the
\* rule-based classification, which is also what a raising model gives.
Init ==
    /\ InitStore
    /\ mailbox \in Mailboxes
    /\ gemini = TRUE
    /\ ce = CeOff
    /\ UtilsOff

Next ==
    \/ \E p \in Procs : FetchInterviewEmails(p)
    \/ \E p \in Procs : ProcessEmail(p)
    \/ \E p \in Procs : FinishBatch(p)
    \/ \E p \in Procs : AddApplication(p)
    \/ \E p \in Procs : UpsertSelect(p)
    \/ \E p \in Procs : UpsertWrite(p)
    \/ \E p \in Procs : UpsertBusy(p)
    \/ \E p \in Procs : UpsertCommit(p)

Spec == Init /\ [][Next]_vars

(***************************************************************************)
(* One session fetching a mailbox of one email again and again: the same   *)
(* message reconciled and upserted under varying answers of the model.     *)
(***************************************************************************)
ReconcileEmails ==
    {[subject |-> sub, from |-> "hr@startup.ai", snippet |-> "", body |-> bod,
      x_company |-> "Startup",
      x_role |-> IF sub = "Your application" THEN "Analyst" ELSE NULL,
      x_dates |-> ds] :
        sub \in {"Interview scheduled", "Your application"},
        bod \in {"", "Congratulations, we are pleased to make you an offer",
                 "Unfortunately we are not moving forward",
                 "On Friday we have a phone screen for you",
                 "Unfortunately the offer was withdrawn",
                 "Unfortunately no phone screen",
                 "An offer follows the phone screen"},
        ds \in {<<>>, <<2>>, <<3, 2, 3>>}}

ReconcileMailboxes == {<<e>> : e \in ReconcileEmails}

ReconcileAnswers ==
    {AnswerRaise,
     AnswerText("none", "object",
         JsonObject("job_application", Number(9), "Acme AI", ABSENT, "false",
                    "interviewed")),
     AnswerText("json", "object",
         JsonObject("job_interview", Number(9), NULL, "Engineer", "true",
                    "interview_scheduled")),
     AnswerText("none", "object",
         JsonObject("job_application", Number(5), ABSENT, ABSENT, ABSENT, NULL)),
     AnswerText("none", "object",
         JsonObject("promotional", Number(9), ABSENT, ABSENT, ABSENT, ABSENT)),
     AnswerText("none", "object",
         JsonObject("job_application", Number(9), "", "", "false", "applied"))}

InitReconcile ==
    /\ InitStore
    /\ mailbox \in ReconcileMailboxes
    /\ gemini = TRUE
    /\ ce = CeOff
    /\ UtilsOff

NextReconcile ==
    \/ FetchInterviewEmails(1)
    \/ ProcessEmailWith(1, ReconcileAnswers)
    \/ FinishBatch(1)
    \/ UpsertSelect(1)
    \/ UpsertWrite(1)
    \/ UpsertCommit(1)

SpecReconcile == InitReconcile /\ [][NextReconcile]_vars

(***************************************************************************)
(* The Kanban board (kanban_database.py, kanban_board.py) and the list     *)
(* view (app.py): status updates, stage moves, notes and deletions on the  *)
(* applications that manual entries create.  Each of these handlers is one *)
(* short transaction, taken as one step.                                   *)
(***************************************************************************)
BOARD_STAGES == {"backlog", "applied", "screening", "interview", "final", "closed"}

stage_order == <<"backlog", "applied", "screening", "interview", "final", "closed">>

\* status LIKE '%interview%' on the statuses of the application.
LikeInterview(status) == status \in {"interview_scheduled", "interviewed"}

\* upgrade_database_for_kanban, lines 121-128: the stage of a status.
StatusToStage(status) ==
    CASE status = "applied" -> "applied"
      [] LikeInterview(status) -> "interview"
      [] status = "offer" -> "final"
      [] status = "rejected" -> "closed"
      [] status = "accepted" -> "closed"
      [] OTHER -> "applied"

\* What the handlers of the board and of the list view leave alone.
kanbanFrame ==
    <<db_lock, pending, pc, caller, record, existing, outcome, mailbox, gemini, ce,
      loopVars, utilVars>>

\* A handler of the board or the list view may run while the budget lasts
\* and no connection holds the write lock.
MayRun == ops < MaxOps /\ db_lock = 0

RowsWithId(rows, id) == {r \in rows : r["id"] = id}

\* update_application_status(app_id, new_status): UPDATE applications SET
\* status = ?, updated_at = ? WHERE id = ?.
update_application_status(rows, app_id, new_status, now) ==
    {IF r["id"] = app_id
     THEN [r EXCEPT !["status"] = new_status, !["updated_at"] = now]
     ELSE r : r \in rows}

\* The list view's Update button, app.py lines 579-592.
UpdateStatus(app) ==
    /\ MayRun
    /\ \E new_status \in Statuses :
          applications' =
              update_application_status(applications, app["id"], new_status, clock + 1)
    /\ ops' = ops + 1
    /\ clock' = clock + 1
    /\ UNCHANGED <<sqlite_sequence, kanbanVars, kanbanFrame>>

\* Lines 157-158 and 165-168: the calls that raise ValueError.
MoveRaises(app_id, new_stage) ==
    new_stage \notin BOARD_STAGES \/ RowsWithId(applications, app_id) = {}

\* Mutant of AlreadyInStage: the stage the application is in is no special
\* case.
AlreadyInStage_Ignored(app_id, new_stage) == FALSE

\* Lines 170-174: old_stage == new_stage.
AlreadyInStage(app_id, new_stage) ==
    \A r \in RowsWithId(applications, app_id) : r["board_stage"] = new_stage

\* Mutant of TransitionRow: from_stage is always the first stage.
TransitionRow_FromBacklog(tid, app_id, old_stage, new_stage, notes, now) ==
    [id |-> tid, application_id |-> app_id, from_stage |-> "backlog",
     to_stage |-> new_stage, transition_date |-> now, notes |-> notes,
     automated |-> FALSE]

\* Lines 188-192: the row of stage_transitions.
TransitionRow(tid, app_id, old_stage, new_stage, notes, now) ==
    [id |-> tid, application_id |-> app_id, from_stage |-> old_stage,
     to_stage |-> new_stage, transition_date |-> now, notes |-> notes,
     automated |-> FALSE]

\* move_application_to_stage(app_id, new_stage, notes): ValueError for an
\* unknown stage or application, nothing for the stage the application is
\* in, otherwise the UPDATE of the application and the INSERT of the
\* transition, committed together.
move_application_to_stage(app_id, new_stage, notes, now) ==
    IF MoveRaises(app_id, new_stage)
    THEN /\ last_move' = [app_id |-> app_id, new_stage |-> new_stage,
                          outcome |-> "ValueError"]
         /\ UNCHANGED <<applications, application_notes, stage_transitions,
                        kanban_sequence>>
    ELSE IF AlreadyInStage(app_id, new_stage)
    THEN /\ last_move' = [app_id |-> app_id, new_stage |-> new_stage,
                          outcome |-> "returned"]
         /\ UNCHANGED <<applications, application_notes, stage_transitions,
                        kanban_sequence>>
    ELSE LET old == CHOOSE r \in RowsWithId(applications, app_id) : TRUE
             tid == kanban_sequence.stage_transitions + 1
         IN /\ applications' =
                  {IF r["id"] = app_id
                   THEN [r EXCEPT !["board_stage"] = new_stage,
                                  !["stage_entered_date"] = now,
                                  !["days_in_current_stage"] = 0,
                                  !["updated_at"] = now]
                   ELSE r : r \in applications}
            /\ stage_transitions' = stage_transitions \cup
                  {TransitionRow(tid, app_id, old["board_stage"], new_stage, notes,
                                 now)}
            /\ kanban_sequence' = [kanban_sequence EXCEPT !.stage_transitions = tid]
            /\ last_move' = [app_id |-> app_id, new_stage |-> new_stage,
                             outcome |-> "moved"]
            /\ UNCHANGED application_notes

\* The stages and application ids of the direct calls tried: the stages, a
\* name that is no stage, the ids handed out and the next one.
CalledStages == BOARD_STAGES \cup {"archived"}
CalledIds == 1..(sqlite_sequence + 1)

\* A call of move_application_to_stage with any arguments.
MoveApplicationToStage(app_id, new_stage) ==
    /\ MayRun
    /\ move_application_to_stage(app_id, new_stage, "", clock + 1)
    /\ ops' = ops + 1
    /\ clock' = clock + 1
    /\ UNCHANGED <<sqlite_sequence, kanbanFrame>>

\* The position of a stage in stage_order (stage_order.index).
StageIndex(stage) == CHOOSE i \in DOMAIN stage_order : stage_order[i] = stage

\* Mutant of ShownStage: the stored value is taken as it is.
ShownStage_AsStored(app) == app["board_stage"]

\* get_board_data, lines 233-240: the column an application is shown in.
ShownStage(app) ==
    IF app["board_stage"] \in BOARD_STAGES THEN app["board_stage"] ELSE "applied"

\* Mutant of NextStage: the stage after the next, where there is one.
NextStage_Skips(current_idx) ==
    stage_order[IF current_idx + 2 <= Len(stage_order) THEN current_idx + 2
                ELSE current_idx + 1]

\* Line 165: next_stage = stage_order[current_idx + 1].
NextStage(current_idx) == stage_order[current_idx + 1]

\* move_to_next_stage(app, current_stage), kanban_board.py lines 157-172
\* and app.py lines 201-217, for the card of app in the column it is shown
\* in.
move_to_next_stage(app) ==
    /\ LET current_idx == StageIndex(ShownStage(app))
       IN IF current_idx < Len(stage_order)
          THEN move_application_to_stage(app["id"], NextStage(current_idx),
                                         <<"Auto-moved from", ShownStage(app)>>,
                                         clock + 1)
          ELSE UNCHANGED <<applications, kanbanVars>>
    /\ ops' = ops + 1
    /\ clock' = clock + 1
    /\ UNCHANGED <<sqlite_sequence, kanbanFrame>>

\* The card's "move to next stage" button.
MoveToNextStage(app) == MayRun /\ move_to_next_stage(app)

\* add_application_note(app_id, content, note_type), called by the Save Note
\* button of the card of an application.
AddApplicationNote(app) ==
    /\ MayRun
    /\ LET nid == kanban_sequence.application_notes + 1
       IN /\ application_notes' = application_notes \cup
                {[id |-> nid, application_id |-> app["id"], note_type |-> "general",
                  content |-> "note", created_at |-> clock + 1]}
          /\ kanban_sequence' = [kanban_sequence EXCEPT !.application_notes = nid]
    /\ ops' = ops + 1
    /\ clock' = clock + 1
    /\ UNCHANGED <<applications, sqlite_sequence, stage_transitions, last_move,
                   kanbanFrame>>

\* db_utils.delete_application(app_id), the Delete button of the list view:
\* DELETE FROM applications WHERE id = ?.
DeleteApplication(app) ==
    /\ MayRun
    /\ applications' = applications \ RowsWithId(applications, app["id"])
    /\ ops' = ops + 1
    /\ clock' = clock + 1
    /\ UNCHANGED <<sqlite_sequence, kanbanVars, kanbanFrame>>

\* kanban_board.delete_application(app_id): the notes, the transitions and
\* the application.
KanbanDeleteApplication(app) ==
    /\ MayRun
    /\ application_notes' =
          {n \in application_notes : n.application_id # app["id"]}
    /\ stage_transitions' =
          {t \in stage_transitions : t.application_id # app["id"]}
    /\ applications' = applications \ RowsWithId(applications, app["id"])
    /\ ops' = ops + 1
    /\ clock' = clock + 1
    /\ UNCHANGED <<sqlite_sequence, kanban_sequence, last_move, kanbanFrame>>

\* The position of a board_stage value in ORDER BY board_stage: NULL first,
\* then the texts in byte order.
StageRank(stage) ==
    CASE stage = NULL -> 0
      [] stage = "" -> 1
      [] stage = "applied" -> 2
      [] stage = "archived" -> 3
      [] stage = "backlog" -> 4
      [] stage = "closed" -> 5
      [] stage = "final" -> 6
      [] stage = "interview" -> 7
      [] OTHER -> 8

\* Lines 213-225: the rows in the order of the query (every row tried has
\* the same stage_position).
QueryOrder(rows) ==
    CHOOSE q \in [1..Cardinality(rows) -> rows] :
        /\ \A i, j \in 1..Cardinality(rows) : i # j => q[i] # q[j]
        /\ \A i, j \in 1..Cardinality(rows) :
              i < j => \/ StageRank(q[i]["board_stage"]) < StageRank(q[j]["board_stage"])
                       \/ /\ q[i]["board_stage"] = q[j]["board_stage"]
                          /\ q[i]["id"] < q[j]["id"]

\* Lines 235-240: the dict appended for a row.
BoardEntry(app, now) ==
    LET calculated == IF app["stage_entered_date"] \in Int
                      THEN now - app["stage_entered_date"] ELSE 0
        entry == [c \in Columns \cup {"calculated_days_in_stage"} |->
                     IF c = "calculated_days_in_stage" THEN calculated ELSE app[c]]
    IN IF Or(app["board_stage"], "applied") \in BOARD_STAGES
       THEN entry @@ [days_in_stage |-> calculated]
       ELSE entry

IsShownIn(stage, app) == ShownStage(app) = stage

\* get_board_data(): one list per stage, filled in the order of the query.
get_board_data(rows, now) ==
    LET q == QueryOrder(rows)
        Entries[n \in 0..Len(q)] ==
            IF n = 0 THEN [stage \in BOARD_STAGES |-> <<>>]
            ELSE [stage \in BOARD_STAGES |->
                     IF IsShownIn(stage, q[n])
                     THEN Append(Entries[n - 1][stage], BoardEntry(q[n], now))
                     ELSE Entries[n - 1][stage]]
    IN Entries[Len(q)]

\* The board is drawn: show_kanban_board calls get_board_data.
GetBoardData ==
    /\ board_data' = get_board_data(applications, clock)
    /\ board_data' # board_data
    /\ UNCHANGED <<storeVars, clock, pc, caller, record, existing, outcome, ops,
                   mailbox, gemini, ce, loopVars, kanbanVars, ed, sp, xc>>

\* The board_stage values of the stored rows: the stages, NULL, the empty
\* string and a name that is no stage.
StoredStages == {"applied", "interview", "closed", NULL, "", "archived"}

\* The tables of up to MaxOps rows, each inserted by upsert_application
\* from a record with its own board_stage.
BoardTables ==
    UNION {{ {insert_new_record([company |-> "Acme", board_stage |-> f[i]], i, 0) :
                 i \in 1..n} : f \in [1..n -> StoredStages]} : n \in 0..MaxOps}

\* get_board_data on every table tried.
InitBoard ==
    /\ applications \in BoardTables
    /\ sqlite_sequence = Cardinality(applications)
    /\ InitSessions
    /\ mailbox = <<>>
    /\ gemini = TRUE
    /\ ce = CeOff
    /\ UtilsOff

NextBoard == GetBoardData

SpecBoard == InitBoard /\ [][NextBoard]_vars

\* The tables of one application, in any stage and with any status.
StageTables ==
    {{insert_new_record([company |-> "Acme", status |-> status,
                         board_stage |-> stage], 1, 0)} :
        stage \in BOARD_STAGES, status \in Statuses}

\* The clicks on "move to next stage" a run of the board follows.
MaxMoves == 6

\* A board with one application, on which the button is pressed again and
\* again.
InitStages ==
    /\ applications \in StageTables
    /\ sqlite_sequence = 1
    /\ InitSessions
    /\ mailbox = <<>>
    /\ gemini = TRUE
    /\ ce = CeOff
    /\ UtilsOff

NextStages == \E app \in applications : ops < MaxMoves /\ move_to_next_stage(app)

SpecStages == InitStages /\ [][NextStages]_vars

InitKanban ==
    /\ InitStore
    /\ mailbox = <<>>
    /\ gemini = TRUE
    /\ ce = CeOff
    /\ UtilsOff

NextKanban ==
    \/ AddApplication(1)
    \/ UpsertSelect(1)
    \/ UpsertWrite(1)
    \/ UpsertCommit(1)
    \/ \E app \in applications : UpdateStatus(app)
    \/ \E app \in applications : MoveToNextStage(app)
    \/ \E app_id \in CalledIds, new_stage \in CalledStages :
          MoveApplicationToStage(app_id, new_stage)
    \/ \E app \in applications : AddApplicationNote(app)
    \/ \E app \in applications : DeleteApplication(app)
    \/ \E app \in applications : KanbanDeleteApplication(app)

SpecKanban == InitKanban /\ [][NextKanban]_vars

\* One classify_email call on every email, model state and answer tried.
InitClassify ==
    /\ InitStore
    /\ mailbox = <<>>
    /\ gemini \in BOOLEAN
    /\ \E e \in ClassifyEmails, a \in ClassifyAnswers :
          ce = [CeOff EXCEPT !.pc = "start", !.email = e, !.answer = a]
    /\ UtilsOff

NextClassify ==
    \/ ClassifyCheckModel
    \/ ClassifyCallModel
    \/ ClassifyParse
    \/ ClassifyFallback

SpecClassify == InitClassify /\ [][NextClassify]_vars

(***************************************************************************)
(* Properties.                                                             *)
(***************************************************************************)
InUpsert(p) == pc[p] \in {"upsert", "write", "commit"}

\* C1: after any sequence of upsert_application calls the store holds at
\* most one record for each non-null msg_id.
C1_AtMostOneRecordPerMsgId ==
    \A r1, r2 \in applications :
        (r1["msg_id"] # NULL /\ r1["msg_id"] = r2["msg_id"]) => r1 = r2

\* A record with a msg_id that a later upsert has updated.
C1_Witness ==
    \E r \in applications : r["msg_id"] # NULL /\ r["updated_at"] > r["created_at"]

\* The rows already stored for the msg_id of p's record that agree with the
\* record on every key it carries, updated_at apart: what processing the
\* same email with the same parse result and classification left there.
StoredBySameInput(p) ==
    {r \in RowsWithMsgId(applications, record[p]["msg_id"]) :
        \A k \in DOMAIN record[p] \ {"updated_at", "id"} : r[k] = record[p][k]}

SameExceptUpdatedAt(r1, r2) == \A c \in Columns \ {"updated_at"} : r1[c] = r2[c]

\* C2: processing the same email twice (same message_id, parse result and
\* classification) leaves exactly one record for it, whose fields other than
\* updated_at are those of the record left by processing it once; the other
\* records are untouched.
C2_Idempotent ==
    [][\A p \in Procs :
        (/\ pc[p] = "commit" /\ pc'[p] # "commit"
         /\ caller[p] = "fetch"
         /\ StoredBySameInput(p) # {})
        => /\ Cardinality(RowsWithMsgId(applications', record[p]["msg_id"])) = 1
           /\ \A r2 \in RowsWithMsgId(applications', record[p]["msg_id"]) :
                 \E r1 \in StoredBySameInput(p) : SameExceptUpdatedAt(r1, r2)
           /\ \A r \in applications :
                 r["msg_id"] # record[p]["msg_id"] => r \in applications']_vars

\* A second processing of an email is about to commit its UPDATE.
C2_Witness ==
    \E p \in Procs :
        /\ pc[p] = "commit" /\ caller[p] = "fetch"
        /\ pending[p].kind = "update"
        /\ StoredBySameInput(p) # {}

\* C3: two ingestion runs upserting the same message_id, their SELECTs and
\* INSERTs interleaved in any order, never leave two records for it, in the
\* table or in the table a transaction is about to commit.
C3_NoDuplicateUnderRace ==
    \A p \in Procs :
        (pc[p] \in {"write", "commit"} /\ HasMsgId(record[p]))
        => /\ Cardinality(RowsWithMsgId(applications, record[p]["msg_id"])) <= 1
           /\ Cardinality(RowsWithMsgId(pending[p].rows, record[p]["msg_id"])) <= 1

\* Both runs found no record, both inserted: the second INSERT was refused.
C3_Witness ==
    \E p \in Procs :
        /\ outcome[p].kind = "IntegrityError"
        /\ Cardinality(applications) = 1

\* C4: upsert_application never raises an error because of a msg_id
\* conflict; a concurrent or duplicate upsert ends in the update branch.
C4_NoConflictError ==
    \A p \in Procs : outcome[p].kind # "IntegrityError"

\* C5: the ingestion loop performs no upsert for an email classified
\* promotional or irrelevant.
C5_NoUpsertForDiscarded ==
    \A p \in Procs :
        (InUpsert(p) /\ caller[p] = "fetch")
        => ai_classification[p].category \notin {"promotional", "irrelevant"}

ClassificationFields ==
    {"category", "confidence", "reasoning", "company", "role",
     "interview_scheduled", "status_suggestion"}

\* C6: classify_email returns a Classification object for every email and
\* never lets an exception out, whether there is no model, the call of the
\* model raises or the response is not valid JSON.
C6_AlwaysReturns ==
    ce.pc = "done"
    => /\ ce.result.exc = "none"
       /\ DOMAIN ce.result.value = ClassificationFields
       /\ ce.result.value.category # ""

\* The call of the model raised and classify_email returned.
C6_Witness ==
    ce.pc = "done" /\ gemini /\ ce.answer.kind = "raise" /\ ce.fallback_runs = 1

AiPathFailed(answer) == answer.kind = "raise" \/ JsonLoads(answer) = "invalid"

C8_OneCallOnePath ==
    /\ ce.model_calls <= 1
    /\ ce.fallback_runs <= 1
    /\ ce.fallback_runs = 1
       => \/ ModelMissing(gemini) /\ ce.model_calls = 0
          \/ ce.model_calls = 1 /\ ce.answer.kind = "raise"
    /\ ce.pc = "done" => ce.parse_runs + ce.fallback_runs = 1

\* The single call failed and the fallback produced the result.
C8_Witness ==
    ce.pc = "done" /\ ce.model_calls = 1 /\ ce.fallback_runs = 1 /\ ce.parse_runs = 0

\* C9: every Classification returned has 0.0 <= confidence <= 1.0 (in
\* tenths: 0..10), whatever the response of the model contains.
C9_ConfidenceInRange ==
    (ce.pc = "done" /\ ce.result.exc = "none")
    => (0 <= ce.result.value.confidence /\ ce.result.value.confidence <= 10)

\* C10: every Classification returned has its category among the four
\* categories and its status_suggestion among the six statuses, whatever
\* the response of the model contains.
C10_EnumsValid ==
    (ce.pc = "done" /\ ce.result.exc = "none")
    => /\ ce.result.value.category \in Categories
       /\ ce.result.value.status_suggestion \in Statuses

(***************************************************************************)
(* Reconciliation: the status overrides and the interview date.            *)
(***************************************************************************)
\* Session p has built the candidate record of the current email and is
\* about to call upsert_application.
Building(p) == pc[p] = "upsert" /\ caller[p] = "fetch"

CurrentEmail(p) == parse_interview_email(EmailAt(mailbox, idx[p]))

EmailContent(pd) == JoinWords(Words(pd.subject), Words(pd.body))

SchedulingLanguage(pd) == ContainsAny(EmailContent(pd), scheduling_keywords)
MatchesB(pd) == SchedulingLanguage(pd) /\ pd.interview_dates # <<>>
MatchesC(pd) == ContainsAny(EmailContent(pd), offer_keywords)
MatchesD(pd) == ContainsAny(EmailContent(pd), rejection_keywords)
MatchesE(pd) == ContainsAny(EmailContent(pd), screening_keywords)

SuggestedStatus(cls) ==
    IF IsTruthy(cls.status_suggestion) THEN cls.status_suggestion ELSE "applied"

\* C11 as stated: the overrides b, c, d, e are independent checks and the
\* last one that matches gives the status: b and c give offer, c and d give
\* rejected, d and e give interview_scheduled.
C11_LastOverrideWins ==
    \A p \in Procs :
        Building(p) =>
            LET pd == CurrentEmail(p)
                status == record[p]["status"]
            IN /\ (MatchesB(pd) /\ MatchesC(pd) /\ ~MatchesD(pd) /\ ~MatchesE(pd))
                  => status = "offer"
               /\ (MatchesC(pd) /\ MatchesD(pd) /\ ~MatchesE(pd)) => status = "rejected"
               /\ (MatchesD(pd) /\ MatchesE(pd)) => status = "interview_scheduled"

\* C11 as amended: the overrides are tried in the order b, c, d, e and the
\* first one that matches gives the status: b and c give
\* interview_scheduled, c and d without b give offer, d and e without b and
\* c give rejected.
C11_FirstOverrideWins ==
    \A p \in Procs :
        Building(p) =>
            LET pd == CurrentEmail(p)
                status == record[p]["status"]
            IN /\ (MatchesB(pd) /\ MatchesC(pd)) => status = "interview_scheduled"
               /\ (~MatchesB(pd) /\ MatchesC(pd) /\ MatchesD(pd)) => status = "offer"
               /\ (~MatchesB(pd) /\ ~MatchesC(pd) /\ MatchesD(pd) /\ MatchesE(pd))
                  => status = "rejected"

\* An email with scheduling language, a date and offer language.
C11_Witness ==
    \E p \in Procs :
        /\ Building(p)
        /\ MatchesB(CurrentEmail(p)) /\ MatchesC(CurrentEmail(p))
        /\ record[p]["status"] = "interview_scheduled"

\* C12: the screening override e gives the status only when neither the
\* offer override c nor the rejection override d matched; with screening
\* language and offer or rejection language the status is not the one of e.
C12_ScreeningOnlyIfNotOverridden ==
    \A p \in Procs :
        (Building(p) /\ MatchesE(CurrentEmail(p)) /\ ~MatchesB(CurrentEmail(p)))
        => LET pd == CurrentEmail(p)
           IN record[p]["status"] =
                 IF MatchesC(pd) THEN "offer"
                 ELSE IF MatchesD(pd) THEN "rejected"
                 ELSE "interview_scheduled"

\* An email with screening and offer language whose status is offer.
C12_Witness ==
    \E p \in Procs :
        /\ Building(p)
        /\ MatchesE(CurrentEmail(p)) /\ MatchesC(CurrentEmail(p))
        /\ ~MatchesB(CurrentEmail(p))
        /\ record[p]["status"] = "offer"

OnlySchedulingLanguage(pd) ==
    SchedulingLanguage(pd) /\ ~MatchesC(pd) /\ ~MatchesD(pd) /\ ~MatchesE(pd)

\* C13: override b needs scheduling language and an extracted date: with
\* scheduling language alone the status stays the suggested one; with
\* scheduling language, a date and no offer, rejection or screening
\* language the status is interview_scheduled, the candidate record carries
\* an interview date and the stored record has a non-null interview_date.
C13_SchedulingNeedsDate ==
    /\ \A p \in Procs :
          (Building(p) /\ OnlySchedulingLanguage(CurrentEmail(p)))
          => IF CurrentEmail(p).interview_dates = <<>>
             THEN record[p]["status"] = SuggestedStatus(ai_classification[p])
             ELSE /\ record[p]["status"] = "interview_scheduled"
                  /\ "interview_date" \in DOMAIN record[p]
    /\ \A i \in DOMAIN mailbox :
          LET pd == parse_interview_email(EmailAt(mailbox, i))
          IN (OnlySchedulingLanguage(pd) /\ pd.interview_dates # <<>>)
             => \A r \in RowsWithMsgId(applications, pd.message_id) :
                   r["status"] = "interview_scheduled" /\ r["interview_date"] # NULL

\* A stored record of an email with scheduling language and one date.
C13_Witness ==
    \E i \in DOMAIN mailbox :
        LET pd == parse_interview_email(EmailAt(mailbox, i))
        IN /\ OnlySchedulingLanguage(pd) /\ Len(pd.interview_dates) = 1
           /\ \E r \in RowsWithMsgId(applications, pd.message_id) :
                 r["status"] = "interview_scheduled"
                 /\ r["interview_date"] = isoformat(pd.interview_dates[1])

FoundDates(email) == {email.x_dates[i] : i \in DOMAIN email.x_dates}

\* C14: the candidate record carries interview_date, with interview_round
\* "unknown", exactly when a date was extracted and (the classification says
\* interview_scheduled or the computed status is interview_scheduled); the
\* date attached is the earliest of the extracted dates.
C14_InterviewDateAttached ==
    \A p \in Procs :
        Building(p) =>
            LET email == EmailAt(mailbox, idx[p])
                rec == record[p]
            IN /\ "interview_date" \in DOMAIN rec
                  <=> /\ FoundDates(email) # {}
                      /\ \/ ai_classification[p].interview_scheduled
                         \/ rec["status"] = "interview_scheduled"
               /\ "interview_round" \in DOMAIN rec <=> "interview_date" \in DOMAIN rec
               /\ "interview_date" \in DOMAIN rec
                  => /\ rec["interview_round"] = "unknown"
                     /\ rec["interview_date"] \in FoundDates(email)
                     /\ \A d \in FoundDates(email) : rec["interview_date"] <= d

\* A record with an interview date, of an email whose first date found is
\* not the earliest.
C14_Witness ==
    \E p \in Procs :
        /\ Building(p)
        /\ "interview_date" \in DOMAIN record[p]
        /\ \E d \in FoundDates(EmailAt(mailbox, idx[p])) :
              d < EmailAt(mailbox, idx[p]).x_dates[1]

\* Session p is about to commit the UPDATE of a record found by msg_id.
CommitsUpdate(p) ==
    pc[p] = "commit" /\ pc'[p] # "commit" /\ pending[p].kind = "update"

CandidateColumns ==
    {"company", "role", "source", "status", "snippet", "email_subject",
     "email_from", "interview_date", "interview_round", "updated_at"}

\* C15 as stated: an upsert on an existing msg_id leaves the stored record
\* equal to the new candidate on every field, interview_date and
\* interview_round being empty when the candidate carries no interview date.
C15_AllFieldsReplaced ==
    [][\A p \in Procs :
        CommitsUpdate(p)
        => \A r2 \in RowsWithMsgId(applications', record[p]["msg_id"]) :
              \A c \in CandidateColumns :
                 r2[c] = IF c \in DOMAIN record[p] THEN record[p][c] ELSE NULL]_vars

\* C15 as amended: an upsert on an existing msg_id updates in place the
\* fields the candidate carries and bumps updated_at; the columns the
\* candidate does not carry, interview_date and interview_round when it has
\* no interview date, keep their stored values.
C15_CarriedFieldsReplaced ==
    [][\A p \in Procs :
        CommitsUpdate(p)
        => /\ {r["id"] : r \in applications'} = {r["id"] : r \in applications}
           /\ \A r1 \in RowsWithMsgId(applications, record[p]["msg_id"]) :
                 \E r2 \in applications' :
                    /\ r2["id"] = r1["id"]
                    /\ r2["updated_at"] > r1["updated_at"]
                    /\ \A c \in Columns \ {"id"} :
                          r2[c] = IF c \in DOMAIN record[p] THEN record[p][c]
                                  ELSE r1[c]]_vars

\* The stored record has an interview date, the new candidate has none.
C15_Witness ==
    \E p \in Procs :
        /\ pc[p] = "commit" /\ pending[p].kind = "update"
        /\ "interview_date" \notin DOMAIN record[p]
        /\ \E r \in RowsWithMsgId(applications, record[p]["msg_id"]) :
              r["interview_date"] # NULL

(***************************************************************************)
(* The batch loop and failed upserts.                                      *)
(***************************************************************************)
StoreErrors == {"IntegrityError", "OperationalError"}

\* The step in which the upsert_application call of session p fails.
UpsertFails(p) == outcome[p].kind \notin StoreErrors /\ outcome'[p].kind \in StoreErrors

\* C16: an exception while one email is processed is caught and the loop
\* goes on: the index advances one email at a time, the email whose upsert
\* failed is not counted, the next step of the loop is always possible and
\* the handler ends only past the last fetched email.
C16_LoopSurvivesExceptions ==
    [][\A p \in Procs :
        (caller[p] = "fetch" /\ pc[p] # "idle")
        => /\ pc'[p] = "idle" => idx[p] > Len(mailbox)
           /\ pc'[p] # "idle" => idx'[p] \in {idx[p], idx[p] + 1}
           /\ UpsertFails(p)
              => /\ pc'[p] = "loop"
                 /\ idx'[p] = idx[p] + 1
                 /\ processed_count'[p] = processed_count[p]
           /\ pc'[p] = "loop"
              => IF idx'[p] <= Len(mailbox)
                 THEN \E answer \in IngestAnswers :
                         classify_email(gemini, answer, EmailAt(mailbox, idx'[p])).exc
                            = "none"
                 ELSE idx'[p] = Len(mailbox) + 1]_vars

\* The upsert of the first email of a batch of two failed and the loop
\* stands at the second.
C16_Witness ==
    \E p \in Procs :
        /\ pc[p] = "loop" /\ caller[p] = "fetch"
        /\ outcome[p].kind \in StoreErrors
        /\ idx[p] = Len(mailbox)
        /\ idx[p] > 1

ManualRows(rows) == {r \in rows : r["msg_id"] = NULL}

\* C20: the upsert of a record without msg_id never takes the update branch
\* and never meets the uniqueness constraint; when it commits, the table
\* gains exactly one record, with a fresh id and a null msg_id, and every
\* other record is as before.
C20_ManualAlwaysInserts ==
    [][\A p \in Procs :
        (pc[p] \in {"write", "commit"} /\ ~HasMsgId(record[p]))
        => /\ existing[p] = 0
           /\ outcome'[p].kind # "IntegrityError"
           /\ pc'[p] = "commit" => pending'[p].kind = "insert"
           /\ (pc[p] = "commit" /\ pc'[p] # "commit")
              => \E row \in applications' \ applications :
                    /\ applications' = applications \cup {row}
                    /\ row["msg_id"] = NULL
                    /\ \A r \in applications : row["id"] > r["id"]
                    /\ outcome'[p] = [kind |-> "ok", id |-> row["id"]]]_vars

\* Two manual entries stand in the table.
C20_Witness == Cardinality(ManualRows(applications)) >= 2

(***************************************************************************)
(* The Kanban tables.                                                      *)
(***************************************************************************)
ApplicationIds == {r["id"] : r \in applications}

\* C18: after any sequence of add-note, move-stage and delete operations,
\* through any delete entry point, every application_notes row and every
\* stage_transitions row refers to an application that still exists.
C18_NoOrphanRows ==
    /\ \A n \in application_notes : n.application_id \in ApplicationIds
    /\ \A t \in stage_transitions : t.application_id \in ApplicationIds

\* C19: in every state reached through upsert_application,
\* update_application_status and move_application_to_stage, the board_stage
\* of each record is the stage the status-to-stage mapping gives for its
\* status.
C19_BoardStageFollowsStatus ==
    \A r \in applications : r["board_stage"] = StatusToStage(r["status"])

(***************************************************************************)
(* The rule-based classifier.                                              *)
(***************************************************************************)
\* The rule-based classifier produced the result of the call.
RuleBasedRan == ce.pc = "done" /\ ce.fallback_runs = 1

\* The first-match cascade of the claim over the words ws of a text: what
\* the classification must be in category, confidence, interview_scheduled
\* and status_suggestion.
CascadeOver(ws, cls) ==
    IF ContainsAny(ws, promotional_indicators)
    THEN cls.category = "promotional" /\ cls.confidence = 8
    ELSE IF ContainsAny(ws, interview_indicators)
    THEN /\ cls.category = "job_interview" /\ cls.confidence = 7
         /\ cls.interview_scheduled = TRUE
         /\ cls.status_suggestion = "interview_scheduled"
    ELSE /\ cls.category = "job_application" /\ cls.confidence = 6
         /\ cls.status_suggestion = "applied"

\* C21 as stated: the rule-based classification is the first-match cascade
\* (promotional 0.8, else job_interview 0.7 / interview_scheduled, else
\* job_application 0.6 / applied) over lower(subject + body).
C21_CascadeOverSubjectAndBody ==
    RuleBasedRan
    => /\ ce.result.exc = "none"
       /\ CascadeOver(JoinWords(Words(ce.email.subject), Words(ce.email.body)),
                      ce.result.value)

\* C21 as amended: the cascade runs over the lower-cased subject followed by
\* the body, or by the snippet when the body is empty; an email with
\* promotional and interview keywords in that text is promotional.
C21_CascadeOverSubjectAndContent ==
    RuleBasedRan
    => /\ ce.result.exc = "none"
       /\ CascadeOver(JoinWords(Words(ce.email.subject),
                                IF ce.email.body = "" THEN Words(ce.email.snippet)
                                ELSE Words(ce.email.body)),
                      ce.result.value)

\* The rule-based classifier ran on an email with a promotional keyword in
\* the subject and an interview keyword in the body.
C21_Witness ==
    /\ RuleBasedRan
    /\ ContainsAny(Words(ce.email.subject), promotional_indicators)
    /\ ContainsAny(Words(ce.email.body), interview_indicators)
    /\ ce.result.value.category = "promotional"

(***************************************************************************)
(* The entities of the candidate record.                                   *)
(***************************************************************************)
\* An entity is present when it is neither null nor the empty string.
Present(x) == x # NULL /\ x # ""

\* C22: in the candidate record, company is classification.company when
\* that is present and otherwise the heuristically parsed company, and role
\* is classification.role when present and otherwise the parsed role.
C22_AiEntityWins ==
    \A p \in Procs :
        Building(p) =>
            LET email == EmailAt(mailbox, idx[p])
                cls == ai_classification[p]
                rec == record[p]
            IN /\ Present(cls.company) => rec["company"] = cls.company
               /\ ~Present(cls.company) => rec["company"] = email.x_company
               /\ Present(cls.role) => rec["role"] = cls.role
               /\ ~Present(cls.role) => rec["role"] = email.x_role

\* A record built from an AI company that differs from the parsed one.
C22_Witness ==
    \E p \in Procs :
        /\ Building(p)
        /\ Present(ai_classification[p].company)
        /\ Present(EmailAt(mailbox, idx[p]).x_company)
        /\ ai_classification[p].company # EmailAt(mailbox, idx[p]).x_company
        /\ record[p]["company"] = ai_classification[p].company

(***************************************************************************)
(* The summary of a batch.                                                 *)
(***************************************************************************)
\* The loop of session p is over and the summary is about to be shown.
AtSummary(p) == pc[p] = "loop" /\ idx[p] > Len(mailbox)

\* The count a summary reports under a name, 0 when it reports none.
Reported(s, k) == IF k \in DOMAIN s THEN s[k] ELSE 0

\* C23: the summary of a batch carries the counts processed, skipped as
\* promotional, skipped as irrelevant and failed, and every email of the
\* batch is counted in exactly one of them, so the four add up to the size
\* of the batch.
C23_SummaryCountsEveryEmail ==
    \A p \in Procs :
        AtSummary(p) =>
            /\ DOMAIN Summary(p) =
                  {"processed", "skipped_promotional", "skipped_irrelevant", "failed"}
            /\ Reported(Summary(p), "processed")
               + Reported(Summary(p), "skipped_promotional")
               + Reported(Summary(p), "skipped_irrelevant")
               + Reported(Summary(p), "failed") = Len(mailbox)

(***************************************************************************)
(* extract_dates.                                                          *)
(***************************************************************************)
\* C24: extract_dates returns no timestamp earlier than reference_time
\* minus one day, whichever parser produced it.
C24_NoDateBeforeBuffer ==
    /\ \A k \in DOMAIN ed.dates : ed.dates[k] >= ed.reference_date - Day
    /\ ed.pc = "done"
       => \A k \in DOMAIN ed.result : ed.result[k] >= ed.reference_date - Day

\* A call that returned a date of the primary parser and dropped a date of
\* the fallback parser earlier than the reference time minus one day.
C24_Witness ==
    /\ ed.pc = "done"
    /\ \E k \in DOMAIN ed.path : ed.path[k] = "dateparser"
    /\ \E k \in DOMAIN ed.potential_dates :
          /\ ed.potential_dates[k].dateparser.kind = "raises"
          /\ ed.potential_dates[k].dateutil.kind = "naive"
          /\ ed.potential_dates[k].dateutil.at < ed.reference_date - Day

(***************************************************************************)
(* is_job_board_spam.                                                      *)
(***************************************************************************)
\* The domain of an aggregator, by its name.
AggregatorDomain(name) ==
    CASE name = "foundit" -> "foundit.in"
      [] name = "naukri" -> "naukri.com"
      [] name = "shine" -> "shine.com"
      [] name = "monster" -> "monster.com"
      [] name = "timesjobs" -> "timesjobs.com"
      [] name = "glassdoor" -> "glassdoor.com"
      [] name = "indeed" -> "indeed.com"
      [] OTHER -> "?"

\* The domain of the sender's address: the piece after the "@".
SenderDomain(from_email) ==
    IF \E k \in DOMAIN Pieces(from_email) : Pieces(from_email)[k] = "@"
    THEN Pieces(from_email)[1 + CHOOSE k \in DOMAIN Pieces(from_email) :
                                    Pieces(from_email)[k] = "@"]
    ELSE ""

\* C25: is_job_board_spam(company, from_email) is true exactly when company,
\* case-insensitively, is the name of a known job-board aggregator and the
\* sender's domain is that aggregator's domain; it is false for an empty
\* company, for another company, and for an aggregator's name with a sender
\* of a different domain.
C25_SpamExactlyOwnDomain ==
    sp.pc = "done"
    => (sp.result <=> /\ Lower(sp.company) \in job_board_names
                      /\ SenderDomain(sp.from_email) =
                            AggregatorDomain(Lower(sp.company)))

(***************************************************************************)
(* extract_company.                                                        *)
(***************************************************************************)
\* C26: extract_company takes the first strategy that yields a company,
\* and when the domain strategy (the sender is on a personal-mail
\* provider), the text patterns and the "recruiter" display name all yield
\* nothing, it returns the name derived from the raw domain, also for a
\* personal-mail provider.
C26_FallsBackToDomainName ==
    xc.pc = "done" =>
        LET byDomain == extract_company_from_email(xc.from_header)
            byText == extract_company_from_text(xc.subject, "")
            byName == BeforeRecruiter(DisplayName(xc.from_header))
        IN /\ IsTruthy(byDomain) => xc.result = byDomain
           /\ (~IsTruthy(byDomain) /\ IsTruthy(byText)) => xc.result = byText
           /\ (/\ ~IsTruthy(byDomain) /\ ~IsTruthy(byText) /\ ~IsTruthy(byName)
               /\ DomainOf(xc.from_header) \in common_providers)
              => xc.result = CompanyOfDomain(DomainOf(xc.from_header))

(***************************************************************************)
(* get_board_data.                                                         *)
(***************************************************************************)
\* The places (stage, position) of the board where the record with an id
\* is shown.
PlacesOf(id) ==
    {<<stage, k>> \in UNION {{stage} \X DOMAIN board_data[stage] :
                                 stage \in DOMAIN board_data} :
        board_data[stage][k]["id"] = id}

\* The list a record belongs to by the claim.
ExpectedList(app) ==
    IF app["board_stage"] = NULL \/ app["board_stage"] = ""
       \/ app["board_stage"] \notin BOARD_STAGES
    THEN "applied" ELSE app["board_stage"]

\* C27: get_board_data returns one list per stage of BOARD_STAGES, and every
\* application record appears in exactly one of them: the list of its
\* board_stage, or the list "applied" when its board_stage is null, empty
\* or no known stage.
C27_EveryRecordInOneColumn ==
    board_data # NoBoard
    => /\ DOMAIN board_data = BOARD_STAGES
       /\ \A app \in applications :
             /\ PlacesOf(app["id"]) # {}
             /\ \A x, y \in PlacesOf(app["id"]) : x = y
             /\ \A z \in PlacesOf(app["id"]) : z[1] = ExpectedList(app)
       /\ \A stage \in BOARD_STAGES : \A k \in DOMAIN board_data[stage] :
             \E app \in applications : app["id"] = board_data[stage][k]["id"]

\* A board of three records: one without board_stage, one with a name that
\* is no stage, one in stage interview.
C27_Witness ==
    /\ board_data # NoBoard
    /\ \E a, b, c \in applications :
          /\ a["board_stage"] = NULL
          /\ b["board_stage"] = "archived"
          /\ c["board_stage"] = "interview"
    /\ Len(board_data["applied"]) = 2
    /\ Len(board_data["interview"]) = 1

(***************************************************************************)
(* Stage moves.                                                            *)
(***************************************************************************)
TransitionsOf(id) == {t \in stage_transitions : t.application_id = id}

\* u is the transition of the same application recorded just before t.
JustBefore(u, t) ==
    /\ u.application_id = t.application_id
    /\ u.id < t.id
    /\ \A v \in TransitionsOf(t.application_id) : v.id < t.id => v.id <= u.id

\* C28: the recorded transitions of every application form a chain: no
\* transition has from_stage = to_stage, the from_stage of each is the
\* to_stage of the one before it, and the to_stage of the latest is the
\* board_stage of the application.
C28_TransitionsFormChain ==
    \A app \in applications : \A t \in TransitionsOf(app["id"]) :
        /\ t.from_stage # t.to_stage
        /\ \A u \in TransitionsOf(app["id"]) :
              JustBefore(u, t) => t.from_stage = u.to_stage
        /\ (\A v \in TransitionsOf(app["id"]) : v.id <= t.id)
           => t.to_stage = app["board_stage"]

\* An application moved twice, the second time not from the first stage.
C28_Witness ==
    \E app \in applications : \E t, u \in TransitionsOf(app["id"]) :
        JustBefore(u, t) /\ u.to_stage # "backlog" /\ t.to_stage = app["board_stage"]

\* C29: a call of move_application_to_stage with a new_stage that is no key
\* of BOARD_STAGES, with an id no application has, or with the stage the
\* application is in, leaves the tables applications and stage_transitions
\* as they are; the first two raise ValueError, the third returns.
C29_RefusedMoveChangesNothing ==
    [][\A app_id \in CalledIds, new_stage \in CalledStages :
          MoveApplicationToStage(app_id, new_stage)
          => /\ (new_stage \notin BOARD_STAGES
                 \/ \A r \in applications : r["id"] # app_id)
                => /\ applications' = applications
                   /\ stage_transitions' = stage_transitions
                   /\ last_move'.outcome = "ValueError"
             /\ (/\ new_stage \in BOARD_STAGES
                 /\ \E r \in applications :
                       r["id"] = app_id /\ r["board_stage"] = new_stage)
                => /\ applications' = applications
                   /\ stage_transitions' = stage_transitions
                   /\ last_move'.outcome = "returned"]_vars

\* A call for the stage the application is in has returned, after the
\* application had been moved there.
C29_Witness ==
    /\ last_move.outcome = "returned"
    /\ \E r \in applications :
          /\ r["id"] = last_move.app_id
          /\ r["board_stage"] = last_move.new_stage
          /\ TransitionsOf(r["id"]) # {}

\* C30: each "move to next stage" action advances the board_stage of its
\* application by one position of backlog, applied, screening, interview,
\* final, closed, and changes nothing once the stage is closed; so after 5
\* actions the application is in closed, and it stays there.
C30_NextStageOneStep ==
    /\ [](ops >= 5 => \A r \in applications : r["board_stage"] = "closed")
    /\ [][\A app \in applications :
             move_to_next_stage(app)
             => /\ \A r \in applications' :
                      r["id"] = app["id"]
                      => StageIndex(r["board_stage"]) =
                            IF app["board_stage"] = "closed" THEN Len(stage_order)
                            ELSE StageIndex(app["board_stage"]) + 1
                /\ app["board_stage"] = "closed"
                   => /\ applications' = applications
                      /\ stage_transitions' = stage_transitions]_vars

\* An application that started in backlog, was moved five times and is in
\* closed after a sixth action.
C30_Witness ==
    /\ ops = 6
    /\ \E r \in applications :
          /\ r["board_stage"] = "closed"
          /\ Cardinality(TransitionsOf(r["id"])) = 5
          /\ \E t \in TransitionsOf(r["id"]) : t.from_stage = "backlog"

====
